---------------------------- MODULE Spec2Model ----------------------------
(***************************************************************************)
(* ProgPoW-miner: the stratum pool client (EthStratumClient.cpp) and the   *)
(* CUDA worker (CUDAMiner.cpp, held as src/unnamed/part_001).              *)
(*                                                                         *)
(* Three state machines share this module.  StratumSpec / StratumFairSpec  *)
(* run the pool session with submissions, LoginSpec / LoginFairSpec run    *)
(* its login chain and the pool's jobs, ReportSpec the miner's calls       *)
(* submitSolution and submitHashrate; DeviceSpec, SearchSpec and NonceSpec *)
(* run one GPU worker against its farm over different families of work    *)
(* packages; LoadSpec runs the workers' threads through CUDAMiner::init    *)
(* in the SEQUENTIAL and SINGLE DAG load modes.  Each specification        *)
(* leaves the other machines' variables untouched.                         *)
(***************************************************************************)
EXTENDS Integers, Sequences, FiniteSets, TLC

VARIABLES
    \* ---- EthStratumClient ----
    io_running,        \* the service thread is inside m_io_service.run()
    thread_started,    \* m_serviceThread.joinable()
    link,              \* "down" | "resolving" | "connecting" | "up" | "crashed"
    m_connected,
    m_authorized,
    m_linkdown,
    m_response_pending,
    m_stale,
    worktimer,         \* [armed: BOOLEAN, queued: Nat] m_worktimer
    responsetimer,     \* [armed: BOOLEAN, queued: Nat] m_responsetimer
    pool_unanswered,   \* submissions the pool has received and not answered
    inbound,           \* lines on the wire towards the client
    n_connects,        \* connect() calls so far
    disconnected_cb,   \* m_onDisconnected invocations so far
    subs,              \* per submitSolution call: [stale, outcome]
    cfg,               \* [version, secure]: m_connection.Version(), SecLevel() # NONE
    m_pending,         \* the counter readline and readResponse keep under x_pending
    reads,             \* async_read_until operations whose handler has not run
    m_requestBuffer,   \* ids of the frames written into the buffer and not yet consumed
    writes,            \* async_write operations completing in handleResponse, in flight
    hwrites,           \* async_write operations completing in handleHashrateResponse
    sent,              \* the login frames (ids 1, 2, 3, 5) in the order the client wrote them
    pool_replied,      \* ids of the login frames the pool has answered
    m_current,         \* [header, boundary] of the client's current WorkPackage
    m_hashrate_event,  \* [armed, queued] the debounce timer of submitHashrate
    m_extraNonce,      \* h64: 8 bytes
    m_extraNonceHexSize,
    m_nextWorkDifficulty, \* log2 of the difficulty (the model's difficulties are powers of 2)
    last_submit,       \* the last id=4 frame: its nonce, its work and the nonce string sent
    \* ---- what the client's last step did, and its history ----
    work_seen,         \* work received since m_worktimer was armed, and up to its expiry
    refused,           \* an id=3 response with result false was processed
    transport_error,   \* [kind, cb]: the last transport error and disconnected_cb then
    sev,               \* the handler that ran last, its thread and what it touched
    \* ---- CUDAMiner configuration (configureGPU) and its device ----
    s_numStreams,
    s_noeval,
    index,             \* Miner::index, the worker's number
    totalGlobalMem,    \* cudaDeviceProp::totalGlobalMem, in units of DagBytes
    \* ---- the farm, as the worker sees it ----
    farm_work,         \* Miner::work(): the work package published last
    m_new_work,
    should_stop,       \* Worker::shouldStop()
    n_works,           \* work packages published so far
    \* ---- CUDAMiner::workLoop and CUDAMiner::search ----
    pc,                \* where the worker thread is
    current,
    old_period_seed,
    w,
    m_current_header,
    m_current_target,
    m_starting_nonce,
    m_current_nonce,
    m_current_index,
    m_dag,             \* epoch the device DAG was generated for, or NoEpoch
    m_dag_elms,
    m_light,           \* epoch of the light cache on the device, or NoEpoch
    handles_ok,        \* m_streams / m_search_buf hold the handles cuda_init allocated
    m_kernel,          \* [period, live]: what compileKernel loaded, live in the context
    stream,            \* per stream: [depth, kicked, nonce, work] launches not yet
                       \* completed; nonce and work package of the launch issued last
    buf,               \* per search buffer: [count, result]
    \* ---- what the worker's last step did, and its history ----
    ev,                \* launch, drain, submitProof and failedSolution of the last pass
    kick_at,           \* m_current_index at the first kick inside the loop, or -1
    oom_epoch,         \* epoch for which cuda_init last found too little memory
    compile_failed,    \* compileKernel has thrown
    initialize,        \* the local of search: the last call re-initialised
    \* ---- the DAG load modes: statics shared by the workers ----
    s_dagLoadMode,     \* "PARALLEL" | "SEQUENTIAL" | "SINGLE"
    s_dagCreateDevice,
    s_dagLoadIndex,
    s_dagInHostMemory, \* the host buffer (named by its epoch), 0 for NULL
    load_epoch,        \* epoch of the work the farm publishes to the workers
    init_pc,           \* per worker: where its thread is inside init
    init_epoch,        \* per worker: the epoch of its last call of init
    loaded,            \* per worker: the epoch of the DAG on its device, -1 for garbage
    reg,               \* per worker: the value read for s_dagLoadIndex++
    hdag,              \* per worker: the host pointer it copies from or deletes
    freed,             \* per host buffer: delete[] calls so far
    lev                \* what went wrong in a load so far

sessionVars == <<io_running, thread_started, link, m_connected, m_authorized,
                 m_linkdown, m_response_pending, m_stale, worktimer,
                 responsetimer, pool_unanswered, inbound, n_connects,
                 disconnected_cb, subs, cfg>>

wireVars == <<m_pending, reads, m_requestBuffer, writes, hwrites, sent,
              pool_replied, m_current, m_hashrate_event>>

ghostVars == <<work_seen, refused, transport_error, sev>>

jobVars == <<m_extraNonce, m_extraNonceHexSize, m_nextWorkDifficulty, last_submit>>

stratumVars == <<sessionVars, wireVars, ghostVars, jobVars>>

(* the session but for the lines in flight towards the client *)
poolSideVars == <<io_running, thread_started, link, m_connected, m_authorized,
                  m_linkdown, m_response_pending, m_stale, worktimer,
                  responsetimer, pool_unanswered, n_connects, disconnected_cb,
                  subs, cfg>>

workerVars == <<s_numStreams, s_noeval, index, totalGlobalMem, farm_work,
               m_new_work, should_stop, n_works, pc, current, old_period_seed, w,
               m_current_header, m_current_target, m_starting_nonce,
               m_current_nonce, m_current_index, m_dag, m_dag_elms, m_light,
               handles_ok, m_kernel, stream, buf, ev, kick_at, oom_epoch,
               compile_failed, initialize>>

loadVars == <<s_dagLoadMode, s_dagCreateDevice, s_dagLoadIndex,
              s_dagInHostMemory, load_epoch, init_pc, init_epoch, loaded, reg,
              hdag, freed, lev>>

minerVars == <<workerVars, loadVars>>

vars == <<stratumVars, minerVars>>

-----------------------------------------------------------------------------
(* Bounds of the stratum model *)
MaxSubmits == 2
MaxConnects == 2

-----------------------------------------------------------------------------
(***************************************************************************)
(* boost::asio::deadline_timer, as the client uses it.  A wait is either   *)
(* pending (armed) or has expired with its handler queued on the           *)
(* io_service.  cancel() aborts a pending wait (its handler then runs with *)
(* operation_aborted, which every handler here ignores); a handler already *)
(* queued by an expiry can no longer be cancelled and runs with success.   *)
(***************************************************************************)
TimerIdle == [armed |-> FALSE, queued |-> 0]

TimerCancel(t) == [t EXCEPT !.armed = FALSE]

TimerArm(t) == [t EXCEPT !.armed = TRUE]

TimerExpire(t) == [armed |-> FALSE, queued |-> t.queued + 1]

TimerDequeue(t) == [t EXCEPT !.queued = t.queued - 1]

Outstanding(s) == { i \in 1..Len(s) : s[i].outcome = {} }

(* every submission still waiting for an outcome gets outcome o *)
Resolve(s, who, o) ==
    [i \in 1..Len(s) |->
        IF i \in who THEN [s[i] EXCEPT !.outcome = @ \cup {o}] ELSE s[i]]

Versions == {"STRATUM", "ETHPROXY", "ETHEREUMSTRATUM"}

(* Bounds of the wire: job headers the pool announces, lines queued        *)
(* towards the client, hashrate writes in flight and frames waiting in     *)
(* m_requestBuffer when another report is made, handlers one timer has     *)
(* queued                                                                  *)
MaxJobs == 2
MaxInbound == 2
MaxFrames == 1
MaxBuffered == 2
MaxQueued == 1

(***************************************************************************)
(* Values of the session.  A hex string is a sequence of digits 0..15; a   *)
(* h64 and a uint64_t are 8 bytes and a h256 is 32 bytes, most significant *)
(* byte first.  The host is little-endian.                                 *)
(***************************************************************************)
Zeros(n) == [i \in 1..n |-> 0]

Reverse(b) == [i \in 1..Len(b) |-> b[Len(b) + 1 - i]]

(* h64(enonce): the bytes of a hex string of 8 bytes; a string of another  *)
(* length leaves the hash zero                                              *)
h64(hex) ==
    IF Len(hex) = 16 THEN [i \in 1..8 |-> 16 * hex[2 * i - 1] + hex[2 * i]]
    ELSE Zeros(8)

(* toHex(solution.nonce): 16 hex digits *)
toHex(u64) == [i \in 1..16 |-> IF i % 2 = 1 THEN u64[(i + 1) \div 2] \div 16
                                           ELSE u64[i \div 2] % 16]

(* the 8 bytes of m_extraNonce.data() read as a host uint64_t *)
LoadU64(bytes) == Reverse(bytes)

ethash_swap_u64(u64) == Reverse(u64)

(* what substr yields in place of a string when it throws std::out_of_range *)
OutOfRange == <<-1>>

(* std::string::substr(pos, n), which throws when pos > size() *)
substr(str, pos, n) ==
    IF pos > Len(str) THEN OutOfRange
    ELSE SubSeq(str, pos + 1, IF pos + n > Len(str) THEN Len(str) ELSE pos + n)

(* EthStratumClient::processExtranonce: <<m_extraNonceHexSize, m_extraNonce>> *)
processExtranonce(enonce) ==
    <<Len(enonce),
      h64(IF Len(enonce) < 16 THEN enonce \o Zeros(16 - Len(enonce)) ELSE enonce)>>

(* 4294901760.0 = 0xFFFF0000, as 65535 * 2^16 *)
Diff1Mantissa == 65535
Diff1Shift == 16

(* the same without target2[k + 1] = (uint32_t)(m >> 32): the upper word    *)
(* of m is lost                                                            *)
U64LowWord(mant, sh, i) ==
    LET Bit(q) == IF q < 0 \/ q > 15 THEN 0 ELSE (mant \div 2 ^ q) % 2
        RECURSIVE Sum(_)
        Sum(b) == IF b < 0 THEN 0 ELSE Bit(8 * i + b - sh) * 2 ^ b + Sum(b - 1)
    IN  IF i < 4 THEN Sum(7) ELSE 0

(* byte i (0 the least significant) of (uint64_t)(mant * 2^sh) for a       *)
(* mantissa of 16 bits: the bits below 2^0 are truncated                   *)
U64Byte(mant, sh, i) ==
    LET Bit(q) == IF q < 0 \/ q > 15 THEN 0 ELSE (mant \div 2 ^ q) % 2
        RECURSIVE Sum(_)
        Sum(b) == IF b < 0 THEN 0 ELSE Bit(8 * i + b - sh) * 2 ^ b + Sum(b - 1)
    IN  Sum(7)

(* for (k = 6; k > 0 && diff > 1.0; k--) diff /= 4294967296.0, on the      *)
(* exponent e of diff = 2^e                                                *)
RECURSIVE DiffLoop(_, _)
DiffLoop(k, e) == IF k > 0 /\ e > 0 THEN DiffLoop(k - 1, e - 32) ELSE <<k, e>>

(* the same without the reversal of the 32 bytes *)
diffToTargetUnswapped(e) ==
    LET ke == DiffLoop(6, e)
        k == ke[1]
        m == [i \in 0..7 |-> U64Byte(Diff1Mantissa, Diff1Shift - ke[2], i)]
    IN  [j \in 1..32 |->
           IF (\A i \in 0..7 : m[i] = 0) /\ k = 6 THEN 255
           ELSE IF j - 1 >= 4 * k /\ j - 1 < 4 * k + 8 THEN m[j - 1 - 4 * k]
           ELSE 0]

(* diffToTarget for the difficulty 2^e: the 32 bytes written to target *)
diffToTarget(e) ==
    LET ke == DiffLoop(6, e)
        k == ke[1]
        m == [i \in 0..7 |-> U64Byte(Diff1Mantissa, Diff1Shift - ke[2], i)]
        target2 == [i \in 0..31 |->
                      IF (\A j \in 0..7 : m[j] = 0) /\ k = 6 THEN 255
                      ELSE IF i >= 4 * k /\ i < 4 * k + 8 THEN m[i - 4 * k]
                      ELSE 0]
    IN  [j \in 1..32 |-> target2[32 - j]]

(* h256 of a small number *)
h256(n) == [i \in 1..32 |-> IF i = 32 THEN n ELSE 0]

(* the share targets a stratum or ethproxy pool announces *)
Targets == {h256(1), h256(2)}

(* One line from the pool.  id 0 is a line whose id is none of 1..4: for   *)
(* ETHPROXY always a work notification, else the call named by method.  A  *)
(* notification carries a header (0: missing or empty), a seed (present or *)
(* not) and, for stratum and ethproxy, a share target (<<>>: missing or    *)
(* empty); the reply to id=1 carries the extranonce, set_extranonce and    *)
(* set_difficulty their parameter.  shape tells a line that is a JSON      *)
(* object from one that is not enclosed in braces and one that fails to    *)
(* parse.                                                                  *)
Msg(id) == [id |-> id, result |-> TRUE, sub |-> 0, header |-> 0, boundary |-> <<>>,
            seed |-> TRUE, method |-> "mining.notify", enonce |-> <<>>, diff |-> 0,
            shape |-> "object"]

Notify(h, b) == [Msg(0) EXCEPT !.header = h, !.boundary = b]

(* WorkPackage, default-constructed *)
NoWorkPackage == [header |-> 0, boundary |-> h256(0), startNonce |-> Zeros(8),
                  exSizeBits |-> -1]

NoSubmit == [nonce |-> <<>>, work |-> NoWorkPackage, str |-> <<>>, size |-> 0]

NoError == [kind |-> "none", cb |-> 0]

Error(kind) == [kind |-> kind, cb |-> disconnected_cb]

(* no string was passed to processExtranonce *)
NoString == <<-1>>

(* the record of one step of the client: who ran, on which thread, whether *)
(* it wrote into m_requestBuffer, whether readline met a pending read, and *)
(* for a work notification: whether it repeated the current header,        *)
(* whether m_current changed and whether m_onWorkReceived was called       *)
Event(h, t) ==
    [handler |-> h, thread |-> t, wrote |-> FALSE, read_pending |-> FALSE,
     repeat |-> FALSE, changed |-> FALSE, emitted |-> FALSE, threw |-> FALSE,
     malformed |-> FALSE, enonce |-> NoString]

NothingSeen == [since_arm |-> {}, at_expiry |-> {}, gen |-> 0]

Rearmed(ws) == [ws EXCEPT !.since_arm = {}, !.gen = 1 - @]

Seen(ws, kind) == [ws EXCEPT !.since_arm = @ \cup {kind}]

StratumInit ==
    /\ io_running = FALSE
    /\ thread_started = FALSE
    /\ link = "down"
    /\ m_connected = FALSE
    /\ m_authorized = FALSE
    /\ m_linkdown = TRUE
    /\ m_response_pending = FALSE
    /\ m_stale = FALSE
    /\ worktimer = TimerIdle
    /\ responsetimer = TimerIdle
    /\ pool_unanswered = <<>>
    /\ inbound = <<>>
    /\ n_connects = 0
    /\ disconnected_cb = 0
    /\ subs = <<>>
    /\ cfg \in [version : Versions, secure : BOOLEAN]
    /\ m_pending = 0
    /\ reads = 0
    /\ m_requestBuffer = <<>>
    /\ writes = 0
    /\ hwrites = 0
    /\ sent = <<>>
    /\ pool_replied = {}
    /\ m_current = NoWorkPackage
    /\ m_hashrate_event = TimerIdle
    /\ m_extraNonce = Zeros(8)
    /\ m_extraNonceHexSize = 0
    /\ m_nextWorkDifficulty = 0
    /\ last_submit = NoSubmit
    /\ work_seen = NothingSeen
    /\ refused = FALSE
    /\ transport_error = NoError
    /\ sev = Event("none", "io")

(* EthStratumClient::disconnect, given the timers as the caller left them. *)
(* The submissions still waiting lose their session: by the response      *)
(* timer ("timeout") or for another reason ("aborted").  The socket is    *)
(* closed and the io_service stopped: the read and the writes in flight   *)
(* keep their handlers unrun; m_hashrate_event is not cancelled.          *)
disconnect(wt, rt, why) ==
    /\ subs' = Resolve(subs, Outstanding(subs), why)
    /\ worktimer' = TimerCancel(wt)
    /\ responsetimer' = TimerCancel(rt)
    /\ m_response_pending' = FALSE
    /\ m_linkdown' = TRUE
    /\ link' = "down"
    /\ pool_unanswered' = <<>>
    /\ inbound' = <<>>
    /\ io_running' = FALSE
    /\ m_authorized' = FALSE
    /\ m_connected' = FALSE
    /\ disconnected_cb' = disconnected_cb + 1

(* EthStratumClient::connect, called by the supervisor *)
connect ==
    /\ link = "down"
    /\ n_connects < MaxConnects
    /\ n_connects' = n_connects + 1
    /\ m_authorized' = FALSE
    /\ m_connected' = FALSE
    /\ link' = "resolving"
    /\ IF thread_started
         THEN UNCHANGED <<thread_started, io_running>>   \* m_io_service.reset()
         ELSE thread_started' = TRUE /\ io_running' = TRUE
    /\ transport_error' = NoError
    /\ refused' = FALSE
    /\ sev' = Event("connect", "supervisor")
    /\ UNCHANGED <<m_linkdown, m_response_pending, m_stale, worktimer,
                   responsetimer, pool_unanswered, inbound, disconnected_cb,
                   subs, cfg>>
    /\ UNCHANGED <<wireVars, work_seen>>
    /\ UNCHANGED jobVars
    /\ UNCHANGED minerVars

resolve_handler ==
    /\ io_running
    /\ link = "resolving"
    /\ \E ec \in BOOLEAN :
         IF ~ec
           THEN /\ link' = "connecting"
                /\ UNCHANGED <<io_running, m_connected, m_authorized, m_linkdown,
                               m_response_pending, worktimer, responsetimer,
                               pool_unanswered, inbound, disconnected_cb, subs,
                               transport_error>>
           ELSE /\ disconnect(worktimer, responsetimer, "aborted")
                /\ transport_error' = Error("resolve")
    /\ sev' = Event("resolve_handler", "io")
    /\ UNCHANGED <<thread_started, m_stale, n_connects, cfg>>
    /\ UNCHANGED <<wireVars, work_seen, refused>>
    /\ UNCHANGED jobVars
    /\ UNCHANGED minerVars

(* EthStratumClient::reset_work_timeout *)
reset_work_timeout(wt) == TimerArm(TimerCancel(wt))

connect_handler ==
    /\ io_running
    /\ link = "connecting"
    /\ \E ec \in BOOLEAN, hec \in BOOLEAN :
         IF ec \/ (cfg.secure /\ hec)
           THEN /\ disconnect(worktimer, responsetimer, "aborted")
                /\ transport_error' = Error(IF ec THEN "connect" ELSE "handshake")
                /\ sev' = Event("connect_handler", "io")
                /\ UNCHANGED <<m_requestBuffer, writes, sent, work_seen>>
           ELSE /\ m_connected' = TRUE
                /\ m_linkdown' = FALSE
                /\ worktimer' = reset_work_timeout(worktimer)
                /\ work_seen' = Rearmed(work_seen)
                /\ m_authorized' = (cfg.version # "ETHPROXY")
                /\ link' = "up"
                /\ m_requestBuffer' = Append(m_requestBuffer, 1)
                /\ sent' = Append(sent, 1)
                /\ writes' = writes + 1            \* async_write_with_response
                /\ sev' = [Event("connect_handler", "io") EXCEPT !.wrote = TRUE]
                /\ UNCHANGED <<io_running, m_response_pending, responsetimer,
                               pool_unanswered, inbound, disconnected_cb, subs,
                               transport_error>>
    /\ UNCHANGED <<thread_started, m_stale, n_connects, cfg>>
    /\ UNCHANGED <<m_pending, reads, hwrites, pool_replied, m_current,
                   m_hashrate_event, refused>>
    /\ UNCHANGED jobVars
    /\ UNCHANGED minerVars

(* an io-thread handler that writes into m_requestBuffer can be running *)
BufferInUse ==
    /\ io_running
    /\ \/ link = "connecting"
       \/ reads > 0 /\ inbound # <<>>
       \/ m_hashrate_event.queued > 0

(* submitSolution runs on its caller's thread and appends to                *)
(* m_requestBuffer there.  Next to a handler using the same streambuf the  *)
(* two accesses race: the frame goes in whole, the buffer is left with     *)
(* bytes that form no frame (-1), or the process faults.                   *)
Races == {"none", "garbled", "fault"}

(* a nonce the farm finds for work package wp: inside the range the pool   *)
(* assigned, i.e. the package's prefix followed by digits of the search    *)
SolutionNonce(wp) ==
    LET n == IF wp.exSizeBits < 0 THEN 0 ELSE wp.exSizeBits \div 4
        hex == toHex(wp.startNonce)
    IN  h64([i \in 1..16 |-> IF i <= n THEN hex[i] ELSE 10])

(* the nonce string of the id=4 frame *)
NonceString(version, nonceHex) ==
    IF version = "ETHEREUMSTRATUM"
      THEN substr(nonceHex, m_extraNonceHexSize, 16 - m_extraNonceHexSize)
      ELSE nonceHex

(* EthStratumClient::submitSolution: one timer and one flag for all the      *)
(* submissions in flight.  The frame reaches the pool when the socket is up. *)
(* The Solution is one for the work package emitted last.  An exception of   *)
(* substr leaves the call on the caller's thread, which does not catch it.   *)
submitSolution ==
    /\ n_connects > 0
    /\ link # "crashed"
    /\ Len(subs) < MaxSubmits
    /\ LET nonceHex == toHex(SolutionNonce(m_current))
           str == NonceString(cfg.version, nonceHex)
       IN
       IF str = OutOfRange
         THEN /\ responsetimer' = TimerCancel(responsetimer)
              /\ io_running' = FALSE
              /\ link' = "crashed"
              /\ sev' = [Event("submitSolution", "farm") EXCEPT !.threw = TRUE]
              /\ UNCHANGED <<subs, m_stale, pool_unanswered, m_response_pending,
                             writes, m_requestBuffer, last_submit>>
         ELSE
           /\ \E stale \in BOOLEAN :
                /\ subs' = Append(subs, [stale |-> stale, sent |-> (link = "up"),
                                         outcome |-> {}])
                /\ m_stale' = stale
           /\ pool_unanswered' = IF link = "up" THEN Append(pool_unanswered, Len(subs) + 1)
                                 ELSE pool_unanswered
           /\ m_response_pending' = TRUE
           /\ responsetimer' = TimerArm(TimerCancel(responsetimer))
           /\ writes' = writes + 1                        \* async_write_with_response
           /\ last_submit' = [nonce |-> nonceHex, work |-> m_current, str |-> str,
                              size |-> m_extraNonceHexSize]
           /\ \E race \in Races :
                IF race = "none" \/ ~BufferInUse
                  THEN /\ m_requestBuffer' = Append(m_requestBuffer, 4)
                       /\ UNCHANGED <<io_running, link>>
                  ELSE IF race = "garbled"
                    THEN /\ m_requestBuffer' = <<-1>>
                         /\ UNCHANGED <<io_running, link>>
                    ELSE /\ m_requestBuffer' = m_requestBuffer
                         /\ io_running' = FALSE
                         /\ link' = "crashed"
           /\ sev' = [Event("submitSolution", "farm") EXCEPT !.wrote = TRUE]
    /\ UNCHANGED <<thread_started, m_connected, m_authorized,
                   m_linkdown, worktimer, inbound, n_connects, disconnected_cb, cfg>>
    /\ UNCHANGED <<m_pending, reads, hwrites, sent, pool_replied, m_current,
                   m_hashrate_event, work_seen, refused, transport_error>>
    /\ UNCHANGED <<m_extraNonce, m_extraNonceHexSize, m_nextWorkDifficulty>>
    /\ UNCHANGED minerVars

(* the pool answers its oldest unanswered submission *)
PoolRespond ==
    /\ link = "up"
    /\ pool_unanswered # <<>>
    /\ \E result \in BOOLEAN :
         inbound' = Append(inbound, [Msg(4) EXCEPT !.sub = Head(pool_unanswered),
                                                   !.result = result])
    /\ pool_unanswered' = Tail(pool_unanswered)
    /\ UNCHANGED <<io_running, thread_started, link, m_connected, m_authorized,
                   m_linkdown, m_response_pending, m_stale, worktimer, responsetimer,
                   n_connects, disconnected_cb, subs, cfg>>
    /\ UNCHANGED <<wireVars, ghostVars>>
    /\ UNCHANGED jobVars
    /\ UNCHANGED minerVars

(* the pool answers a login frame it has received, once *)
PoolReply ==
    /\ link = "up"
    /\ Len(inbound) < MaxInbound
    /\ \E id \in {1, 2, 3}, result \in BOOLEAN :
         /\ \E k \in 1..Len(sent) : sent[k] = id
         /\ id \notin pool_replied
         /\ id # 3 => result
         /\ inbound' = Append(inbound, [Msg(id) EXCEPT !.result = result])
         /\ pool_replied' = pool_replied \cup {id}
    /\ UNCHANGED poolSideVars
    /\ UNCHANGED <<m_pending, reads, m_requestBuffer, writes, hwrites, sent,
                   m_current, m_hashrate_event>>
    /\ UNCHANGED ghostVars
    /\ UNCHANGED jobVars
    /\ UNCHANGED minerVars

(* the pool announces a job *)
PoolNotify ==
    /\ link = "up"
    /\ Len(inbound) < MaxInbound
    /\ \E h \in 1..MaxJobs, b \in Targets :
         inbound' = Append(inbound, Notify(h, b))
    /\ UNCHANGED poolSideVars
    /\ UNCHANGED <<wireVars, ghostVars>>
    /\ UNCHANGED jobVars
    /\ UNCHANGED minerVars

(* Bound: the longest extranonce string the pool sends *)
MaxExtranonceLen == 17

(* "08c0" repeated to n digits *)
Extranonce(n) == [i \in 1..n |-> <<0, 8, 12, 0>>[((i - 1) % 4) + 1]]

Extranonces == { Extranonce(n) : n \in {0, 4, MaxExtranonceLen} }

(* the pool answers the subscribe frame, once, with an extranonce *)
PoolSubscribed ==
    /\ link = "up"
    /\ inbound = <<>>
    /\ \E k \in 1..Len(sent) : sent[k] = 1
    /\ 1 \notin pool_replied
    /\ \E en \in Extranonces :
         inbound' = Append(inbound, [Msg(1) EXCEPT !.enonce = en])
    /\ pool_replied' = pool_replied \cup {1}
    /\ UNCHANGED poolSideVars
    /\ UNCHANGED <<m_pending, reads, m_requestBuffer, writes, hwrites, sent,
                   m_current, m_hashrate_event>>
    /\ UNCHANGED <<ghostVars, jobVars>>
    /\ UNCHANGED minerVars

(* mining.set_extranonce *)
PoolSetExtranonce ==
    /\ link = "up"
    /\ inbound = <<>>
    /\ \E en \in Extranonces :
         inbound' = Append(inbound, [Msg(0) EXCEPT !.method = "mining.set_extranonce",
                                                   !.enonce = en])
    /\ UNCHANGED poolSideVars
    /\ UNCHANGED <<wireVars, ghostVars, jobVars>>
    /\ UNCHANGED minerVars

(* mining.notify of ethereum-stratum: a job with its seed and header *)
PoolJob ==
    /\ link = "up"
    /\ inbound = <<>>
    /\ \E h \in 1..MaxJobs : inbound' = Append(inbound, Notify(h, <<>>))
    /\ UNCHANGED poolSideVars
    /\ UNCHANGED <<wireVars, ghostVars, jobVars>>
    /\ UNCHANGED minerVars

(* the lines the pool sends that are not a usable message: one not        *)
(* enclosed in braces, one that fails to parse, and a work notification   *)
(* whose header, seed or share target is missing or empty                 *)
MalformedLines ==
    { [Msg(0) EXCEPT !.shape = "notobject"],
      [Msg(0) EXCEPT !.shape = "unparsable"],
      Notify(0, h256(1)),
      [Notify(1, h256(1)) EXCEPT !.seed = FALSE],
      Notify(1, <<>>) }

PoolMalformed ==
    /\ link = "up"
    /\ inbound = <<>>
    /\ \E line \in MalformedLines : inbound' = Append(inbound, line)
    /\ UNCHANGED poolSideVars
    /\ UNCHANGED <<wireVars, ghostVars, jobVars>>
    /\ UNCHANGED minerVars

(* Bound: the largest difficulty the pool sets is 2^MaxDiffExp *)
MaxDiffExp == 225

(* mining.set_difficulty with a power of two, at least 1 *)
PoolSetDifficulty ==
    /\ link = "up"
    /\ inbound = <<>>
    /\ \E e \in 0..MaxDiffExp :
         inbound' = Append(inbound, [Msg(0) EXCEPT !.method = "mining.set_difficulty",
                                                   !.diff = e])
    /\ UNCHANGED poolSideVars
    /\ UNCHANGED <<wireVars, ghostVars, jobVars>>
    /\ UNCHANGED minerVars

(* readline: one read at a time *)
AnyRead(p) == TRUE

IdleRead(p) == p = 0

(* EthStratumClient::readline, on the counters <<m_pending, reads>> *)
readline(p, r) == IF IdleRead(p) THEN <<p + 1, r + 1>> ELSE <<p, r>>

(* EthStratumClient::handleResponse: the completion of an                  *)
(* async_write_with_response.  A write on a socket that is not connected   *)
(* fails; on success the buffer has been consumed.                         *)
handleResponse ==
    /\ io_running
    /\ writes > 0
    /\ writes' = writes - 1
    /\ \E ec \in BOOLEAN :
         /\ link # "up" => ec
         /\ IF ~ec
              THEN /\ m_requestBuffer' = <<>>
                   /\ m_pending' = readline(m_pending, reads)[1]
                   /\ reads' = readline(m_pending, reads)[2]
                   /\ UNCHANGED transport_error
              ELSE /\ transport_error' = Error("write")
                   /\ UNCHANGED <<m_requestBuffer, m_pending, reads>>
    /\ sev' = [Event("handleResponse", "io") EXCEPT !.read_pending = (m_pending > 0)]
    /\ UNCHANGED sessionVars
    /\ UNCHANGED <<hwrites, sent, pool_replied, m_current, m_hashrate_event,
                   work_seen, refused>>
    /\ UNCHANGED jobVars
    /\ UNCHANGED minerVars

(* processReponse, case 1: what the client writes after the reply to id=1 *)
AuthorizeFirst(version) == <<3, 2>>

SubscribeReply(version) ==
    IF version = "ETHEREUMSTRATUM" THEN <<2, 3>>
    ELSE IF version = "STRATUM" THEN <<3>>
    ELSE <<5>>

(* processReponse, case 3 *)
Tolerates(result) == FALSE

Refuses(result) == ~result

(* processReponse, case 4 *)
processReponse4(msg) ==
    /\ responsetimer' = TimerCancel(responsetimer)
    /\ m_response_pending' = FALSE
    /\ subs' = [subs EXCEPT ![msg.sub].outcome =
                    @ \cup {IF msg.result THEN "accepted" ELSE "rejected"}]

(* processReponse, mining.notify: the stratum and ethproxy branch compares *)
(* the announced header with the current one                               *)
AnyHeader(h) == TRUE

NewHeader(h) == h # m_current.header

(* ... and a notification is taken up (timer re-armed, m_current set,      *)
(* m_onWorkReceived called) always for ETHEREUMSTRATUM, else when new      *)
Ignored(version, fresh) == FALSE

Accepted(version, fresh) == version = "ETHEREUMSTRATUM" \/ fresh

(* processReponse, mining.notify: sHeaderHash != "" && sSeedHash != "" (the *)
(* share target of stratum and ethproxy is never empty after the padding)  *)
Complete(msg) == msg.header # 0 /\ msg.seed

(* "0x" + string(66 - l, '0') + sShareTarget.substr(2) with l < 66: substr *)
(* throws std::out_of_range on a target shorter than two characters        *)
PaddingThrows(version, msg) == version # "ETHEREUMSTRATUM" /\ Len(msg.boundary) < 2

(* EthStratumClient::readResponse, with processReponse on a complete line. *)
(* An exception leaves the handler and io_service::run on the service      *)
(* thread, where nothing catches it: the process terminates.               *)
ReadResponse(ec) ==
    /\ io_running
    /\ reads > 0
    /\   LET p == IF m_pending > 0 THEN m_pending - 1 ELSE 0
             r == reads - 1
             msg == Head(inbound)
             e == Event("readResponse", "io")
             again == IF m_connected THEN readline(p, r) ELSE <<p, r>>
             method == IF cfg.version = "ETHPROXY" THEN "mining.notify" ELSE msg.method
         IN
         /\ ~ec => inbound # <<>>
         /\ IF ec
              THEN IF m_connected
                     THEN /\ disconnect(worktimer, responsetimer, "aborted")
                          /\ transport_error' = Error("read")
                          /\ m_pending' = p /\ reads' = r
                          /\ sev' = e
                          /\ UNCHANGED <<m_stale, m_requestBuffer, writes, sent,
                                         m_current, work_seen, refused>>
                          /\ UNCHANGED jobVars
                     ELSE /\ m_pending' = p /\ reads' = r
                          /\ sev' = e
                          /\ UNCHANGED <<io_running, link, m_connected, m_authorized,
                                         m_linkdown, m_response_pending, m_stale,
                                         worktimer, responsetimer, pool_unanswered,
                                         inbound, disconnected_cb, subs,
                                         m_requestBuffer, writes, sent, m_current,
                                         work_seen, refused, transport_error>>
                          /\ UNCHANGED jobVars
              ELSE IF msg.shape # "object"
                     THEN /\ inbound' = Tail(inbound)
                          /\ m_pending' = again[1] /\ reads' = again[2]
                          /\ sev' = [e EXCEPT !.malformed = TRUE]
                          /\ UNCHANGED <<io_running, link, m_connected, m_authorized,
                                         m_linkdown, m_response_pending, m_stale,
                                         worktimer, responsetimer, pool_unanswered,
                                         disconnected_cb, subs, m_requestBuffer,
                                         writes, sent, m_current, work_seen, refused,
                                         transport_error>>
                          /\ UNCHANGED jobVars
              ELSE IF msg.id = 3 /\ Refuses(msg.result)
                     THEN /\ disconnect(worktimer, responsetimer, "aborted")
                          /\ refused' = TRUE
                          /\ m_pending' = p /\ reads' = r
                          /\ sev' = e
                          /\ UNCHANGED <<m_stale, m_requestBuffer, writes, sent,
                                         m_current, work_seen, transport_error>>
                          /\ UNCHANGED jobVars
              ELSE IF msg.id = 0 /\ method = "mining.notify"
                      /\ PaddingThrows(cfg.version, msg)
                     THEN /\ inbound' = Tail(inbound)
                          /\ m_pending' = p /\ reads' = r
                          /\ m_stale' = (m_response_pending \/ m_stale)
                          /\ io_running' = FALSE
                          /\ link' = "crashed"
                          /\ sev' = [e EXCEPT !.threw = TRUE,
                                              !.malformed = ~Complete(msg) \/ msg.boundary = <<>>]
                          /\ UNCHANGED <<m_connected, m_authorized, m_linkdown,
                                         m_response_pending, worktimer, responsetimer,
                                         pool_unanswered, disconnected_cb, subs,
                                         m_requestBuffer, writes, sent, m_current,
                                         work_seen, refused, transport_error>>
                          /\ UNCHANGED jobVars
              ELSE /\ inbound' = Tail(inbound)
                   /\ m_pending' = again[1] /\ reads' = again[2]
                   /\ UNCHANGED <<io_running, link, m_connected, m_linkdown,
                                  pool_unanswered, disconnected_cb, transport_error>>
                   /\ UNCHANGED last_submit
                   /\ IF msg.id = 1
                        THEN /\ m_requestBuffer' = m_requestBuffer \o SubscribeReply(cfg.version)
                             /\ sent' = sent \o SubscribeReply(cfg.version)
                             /\ writes' = writes + 1
                             /\ m_authorized' = IF cfg.version = "ETHPROXY" THEN TRUE
                                                ELSE m_authorized
                             /\ IF cfg.version = "ETHEREUMSTRATUM"
                                  THEN /\ m_nextWorkDifficulty' = 0
                                       /\ m_extraNonceHexSize' = processExtranonce(msg.enonce)[1]
                                       /\ m_extraNonce' = processExtranonce(msg.enonce)[2]
                                  ELSE UNCHANGED <<m_nextWorkDifficulty,
                                                   m_extraNonceHexSize, m_extraNonce>>
                             /\ sev' = [e EXCEPT !.wrote = TRUE,
                                                 !.enonce = IF cfg.version = "ETHEREUMSTRATUM"
                                                              THEN msg.enonce ELSE NoString]
                             /\ UNCHANGED <<m_response_pending, m_stale, worktimer,
                                            responsetimer, subs, m_current,
                                            work_seen, refused>>
                      ELSE IF msg.id = 2
                        THEN /\ sev' = e
                             /\ UNCHANGED <<m_authorized, m_response_pending, m_stale,
                                            worktimer, responsetimer, subs,
                                            m_requestBuffer, writes, sent, m_current,
                                            work_seen, refused>>
                             /\ UNCHANGED <<m_nextWorkDifficulty, m_extraNonceHexSize,
                                            m_extraNonce>>
                      ELSE IF msg.id = 3
                        THEN /\ m_authorized' = msg.result
                             /\ refused' = ~msg.result
                             /\ sev' = e
                             /\ UNCHANGED <<m_response_pending, m_stale, worktimer,
                                            responsetimer, subs, m_requestBuffer,
                                            writes, sent, m_current, work_seen>>
                             /\ UNCHANGED <<m_nextWorkDifficulty, m_extraNonceHexSize,
                                            m_extraNonce>>
                      ELSE IF msg.id = 4
                        THEN /\ processReponse4(msg)
                             /\ sev' = e
                             /\ UNCHANGED <<m_authorized, m_stale, worktimer,
                                            m_requestBuffer, writes, sent, m_current,
                                            work_seen, refused>>
                             /\ UNCHANGED <<m_nextWorkDifficulty, m_extraNonceHexSize,
                                            m_extraNonce>>
                      ELSE IF method = "mining.notify"
                        THEN LET kind == IF msg.header = m_current.header
                                           THEN "repeat" ELSE "new"
                                 take == /\ Complete(msg)
                                         /\ Accepted(cfg.version, NewHeader(msg.header))
                             IN
                             /\ m_stale' = (m_response_pending \/ m_stale)
                             /\ worktimer' = IF take THEN reset_work_timeout(worktimer)
                                             ELSE worktimer
                             /\ work_seen' = IF take THEN Rearmed(work_seen)
                                             ELSE IF Complete(msg) THEN Seen(work_seen, kind)
                                             ELSE work_seen
                             /\ m_current' =
                                  IF ~take THEN m_current
                                  ELSE IF cfg.version = "ETHEREUMSTRATUM"
                                    THEN [header |-> msg.header,
                                          boundary |-> diffToTarget(m_nextWorkDifficulty),
                                          startNonce |-> ethash_swap_u64(LoadU64(m_extraNonce)),
                                          exSizeBits |-> m_extraNonceHexSize * 4]
                                    ELSE [m_current EXCEPT !.header = msg.header,
                                                           !.boundary = msg.boundary]
                             /\ sev' = [e EXCEPT !.repeat = Complete(msg) /\ kind = "repeat",
                                                  !.changed = (m_current' # m_current),
                                                  !.emitted = take,
                                                  !.malformed = ~Complete(msg)]
                             /\ UNCHANGED <<m_authorized, m_response_pending,
                                            responsetimer, subs, m_requestBuffer,
                                            writes, sent, refused>>
                             /\ UNCHANGED <<m_nextWorkDifficulty, m_extraNonceHexSize,
                                            m_extraNonce>>
                      ELSE IF method = "mining.set_difficulty"
                              /\ cfg.version = "ETHEREUMSTRATUM"
                        THEN /\ m_nextWorkDifficulty' = msg.diff
                             /\ sev' = e
                             /\ UNCHANGED <<m_authorized, m_response_pending, m_stale,
                                            worktimer, responsetimer, subs,
                                            m_requestBuffer, writes, sent, m_current,
                                            work_seen, refused>>
                             /\ UNCHANGED <<m_extraNonceHexSize, m_extraNonce>>
                      ELSE IF method = "mining.set_extranonce"
                              /\ cfg.version = "ETHEREUMSTRATUM"
                        THEN /\ m_extraNonceHexSize' = processExtranonce(msg.enonce)[1]
                             /\ m_extraNonce' = processExtranonce(msg.enonce)[2]
                             /\ sev' = [e EXCEPT !.enonce = msg.enonce]
                             /\ UNCHANGED <<m_authorized, m_response_pending, m_stale,
                                            worktimer, responsetimer, subs,
                                            m_requestBuffer, writes, sent, m_current,
                                            work_seen, refused>>
                             /\ UNCHANGED m_nextWorkDifficulty
                      ELSE IF method = "client.get_version"
                        THEN /\ m_requestBuffer' = Append(m_requestBuffer, 7)
                             /\ writes' = writes + 1
                             /\ sev' = [e EXCEPT !.wrote = TRUE]
                             /\ UNCHANGED <<m_authorized, m_response_pending, m_stale,
                                            worktimer, responsetimer, subs, sent,
                                            m_current, work_seen, refused>>
                             /\ UNCHANGED <<m_nextWorkDifficulty, m_extraNonceHexSize,
                                            m_extraNonce>>
                      ELSE /\ sev' = e
                           /\ UNCHANGED <<m_authorized, m_response_pending, m_stale,
                                          worktimer, responsetimer, subs,
                                          m_requestBuffer, writes, sent, m_current,
                                          work_seen, refused>>
                           /\ UNCHANGED <<m_nextWorkDifficulty, m_extraNonceHexSize,
                                          m_extraNonce>>
    /\ UNCHANGED <<thread_started, n_connects, cfg>>
    /\ UNCHANGED <<hwrites, pool_replied, m_hashrate_event>>
    /\ UNCHANGED minerVars

(* the read completes with a line or with an error *)
readResponse == \E ec \in BOOLEAN : ReadResponse(ec)

(* the 2 s of m_responsetimer pass *)
ResponseTimerExpires ==
    /\ responsetimer.armed
    /\ responsetimer' = TimerExpire(responsetimer)
    /\ UNCHANGED <<io_running, thread_started, link, m_connected, m_authorized,
                   m_linkdown, m_response_pending, m_stale, worktimer,
                   pool_unanswered, inbound, n_connects, disconnected_cb, subs, cfg>>
    /\ UNCHANGED <<wireVars, ghostVars>>
    /\ UNCHANGED jobVars
    /\ UNCHANGED minerVars

(* m_worktimeout seconds pass *)
WorkTimerExpires ==
    /\ worktimer.armed
    /\ worktimer.queued < MaxQueued
    /\ worktimer' = TimerExpire(worktimer)
    /\ work_seen' = [work_seen EXCEPT !.at_expiry = work_seen.since_arm]
    /\ UNCHANGED <<io_running, thread_started, link, m_connected, m_authorized,
                   m_linkdown, m_response_pending, m_stale, responsetimer,
                   pool_unanswered, inbound, n_connects, disconnected_cb, subs, cfg>>
    /\ UNCHANGED <<wireVars, refused, transport_error, sev>>
    /\ UNCHANGED jobVars
    /\ UNCHANGED minerVars

(* response_timeout_handler with ec = success: every submission still      *)
(* waiting ends by the response timer's disconnect                          *)
response_timeout_handler ==
    /\ io_running
    /\ responsetimer.queued > 0
    /\ disconnect(worktimer, TimerDequeue(responsetimer), "timeout")
    /\ sev' = Event("response_timeout_handler", "io")
    /\ UNCHANGED <<thread_started, m_stale, n_connects, cfg>>
    /\ UNCHANGED <<wireVars, work_seen, refused, transport_error>>
    /\ UNCHANGED jobVars
    /\ UNCHANGED minerVars

work_timeout_handler ==
    /\ io_running
    /\ worktimer.queued > 0
    /\ disconnect(TimerDequeue(worktimer), responsetimer, "aborted")
    /\ sev' = Event("work_timeout_handler", "io")
    /\ UNCHANGED <<thread_started, m_stale, n_connects, cfg>>
    /\ UNCHANGED <<wireVars, work_seen, refused, transport_error>>
    /\ UNCHANGED jobVars
    /\ UNCHANGED minerVars

(* EthStratumClient::submitHashrate, with m_submit_hashrate set: only the  *)
(* debounce timer is touched, on the caller's thread                       *)
submitHashrate ==
    /\ n_connects > 0
    /\ link # "crashed"
    /\ ~m_linkdown
    /\ hwrites < MaxFrames
    /\ Len(m_requestBuffer) < MaxBuffered
    /\ m_hashrate_event' = TimerArm(TimerCancel(m_hashrate_event))
    /\ sev' = Event("submitHashrate", "farm")
    /\ UNCHANGED sessionVars
    /\ UNCHANGED <<m_pending, reads, m_requestBuffer, writes, hwrites, sent,
                   pool_replied, m_current>>
    /\ UNCHANGED <<work_seen, refused, transport_error>>
    /\ UNCHANGED jobVars
    /\ UNCHANGED minerVars

(* the 100 ms of m_hashrate_event pass *)
HashrateTimerExpires ==
    /\ m_hashrate_event.armed
    /\ m_hashrate_event.queued < MaxQueued
    /\ m_hashrate_event' = TimerExpire(m_hashrate_event)
    /\ UNCHANGED sessionVars
    /\ UNCHANGED <<m_pending, reads, m_requestBuffer, writes, hwrites, sent,
                   pool_replied, m_current>>
    /\ UNCHANGED ghostVars
    /\ UNCHANGED jobVars
    /\ UNCHANGED minerVars

(* EthStratumClient::hashrate_event_handler with ec = success *)
hashrate_event_handler ==
    /\ io_running
    /\ m_hashrate_event.queued > 0
    /\ m_hashrate_event' = TimerDequeue(m_hashrate_event)
    /\ IF m_linkdown
         THEN /\ sev' = Event("hashrate_event_handler", "io")
              /\ UNCHANGED <<m_requestBuffer, hwrites>>
         ELSE /\ m_requestBuffer' = Append(m_requestBuffer, 6)
              /\ hwrites' = hwrites + 1
              /\ sev' = [Event("hashrate_event_handler", "io") EXCEPT !.wrote = TRUE]
    /\ UNCHANGED sessionVars
    /\ UNCHANGED <<m_pending, reads, writes, sent, pool_replied, m_current>>
    /\ UNCHANGED <<work_seen, refused, transport_error>>
    /\ UNCHANGED jobVars
    /\ UNCHANGED minerVars

(* EthStratumClient::handleHashrateResponse: the completion of the         *)
(* hashrate write, whatever its error code                                 *)
handleHashrateResponse ==
    /\ io_running
    /\ hwrites > 0
    /\ hwrites' = hwrites - 1
    /\ \E ec \in BOOLEAN :
         /\ link # "up" => ec
         /\ IF ~ec
              THEN m_requestBuffer' = <<>> /\ UNCHANGED transport_error
              ELSE transport_error' = Error("write") /\ UNCHANGED m_requestBuffer
    /\ sev' = Event("handleHashrateResponse", "io")
    /\ UNCHANGED sessionVars
    /\ UNCHANGED <<m_pending, reads, writes, sent, pool_replied, m_current,
                   m_hashrate_event>>
    /\ UNCHANGED <<work_seen, refused>>
    /\ UNCHANGED jobVars
    /\ UNCHANGED minerVars

(* the session with the pool answering submissions only *)
StratumNext ==
    \/ connect
    \/ resolve_handler
    \/ connect_handler
    \/ handleResponse
    \/ submitSolution
    \/ PoolRespond
    \/ readResponse
    \/ ResponseTimerExpires
    \/ WorkTimerExpires
    \/ response_timeout_handler
    \/ work_timeout_handler

(* the session through its login chain and the pool's jobs: the miner     *)
(* finds no solution and reports no hashrate                              *)
LoginNext ==
    \/ connect
    \/ resolve_handler
    \/ connect_handler
    \/ handleResponse
    \/ PoolReply
    \/ PoolNotify
    \/ readResponse
    \/ WorkTimerExpires
    \/ work_timeout_handler

(* the session with the miner's two calls, submitSolution and             *)
(* submitHashrate: the pool stays silent                                  *)
ReportNext ==
    \/ connect
    \/ resolve_handler
    \/ connect_handler
    \/ handleResponse
    \/ submitSolution
    \/ readResponse
    \/ ResponseTimerExpires
    \/ WorkTimerExpires
    \/ response_timeout_handler
    \/ work_timeout_handler
    \/ submitHashrate
    \/ HashrateTimerExpires
    \/ hashrate_event_handler
    \/ handleHashrateResponse

(* an ethereum-stratum session in which the pool assigns extranonces *)
ExtranonceNext ==
    \/ connect
    \/ resolve_handler
    \/ connect_handler
    \/ handleResponse
    \/ PoolSubscribed
    \/ PoolSetExtranonce
    \/ readResponse

(* the supervisor's first connect *)
FirstConnect ==
    /\ n_connects = 0
    /\ connect

(* the miner's first submission *)
FirstSubmit ==
    /\ subs = <<>>
    /\ submitSolution

(* an ethereum-stratum session in which the pool changes the extranonce   *)
(* and announces jobs, and the miner submits a solution for the job       *)
(* announced last                                                         *)
NonceStringNext ==
    \/ FirstConnect
    \/ resolve_handler
    \/ connect_handler
    \/ handleResponse
    \/ PoolSetExtranonce
    \/ PoolJob
    \/ readResponse
    \/ FirstSubmit

-----------------------------------------------------------------------------
(***************************************************************************)
(* The CUDA worker.  One worker thread runs workLoop and, inside it,       *)
(* search; the farm publishes work and kicks; the device completes         *)
(* launches.  The DAG load mode is the default, PARALLEL: cuda_init        *)
(* generates the DAG on the worker's own device.                           *)
(*                                                                         *)
(* Widths are scaled: a nonce has NonceBits bits instead of 64, a          *)
(* boundary two bits (its upper "64" and its lower "192"), and             *)
(* LOG2_MAX_MINERS is 1.                                                   *)
(***************************************************************************)
(* Bounds of the worker model *)
MaxStreams == 3
MaxHeader == 2
MaxEpoch == 1
MaxPeriod == 1
MaxWorks == 2
MaxIndex == 5
BatchSize == 3

(* Scaled widths *)
LOG2_MAX_MINERS == 1
NonceBits == 6

(* Program constants *)
SEARCH_RESULTS == 4
PROGPOW_PERIOD == 50
NoEpoch == -1

NonceMod == 2 ^ NonceBits

Streams == 0 .. (s_numStreams - 1)

(* a | b on NonceBits-bit words *)
RECURSIVE BitOr(_, _, _)
BitOr(a, b, n) ==
    IF n = 0 THEN 0
    ELSE (IF a % 2 = 1 \/ b % 2 = 1 THEN 1 ELSE 0) + 2 * BitOr(a \div 2, b \div 2, n - 1)

(* a << k on NonceBits-bit words *)
Shl(a, k) == (a * (2 ^ k)) % NonceMod

(* WorkPackage, default-constructed: no header, no epoch, no extranonce *)
NoWork == [header |-> 0, epoch |-> NoEpoch, height |-> 0, boundary |-> 0,
           startNonce |-> 0, exSizeBits |-> -1]

(* what a pool session can publish: exSizeBits = 4 * (extranonce hex digits), *)
(* startNonce = the extranonce padded to the nonce's width                    *)
NonceRegions == { [startNonce |-> 0, exSizeBits |-> -1],
                  [startNonce |-> 0, exSizeBits |-> 4],
                  [startNonce |-> 58, exSizeBits |-> 4] }

WorkPackages(headers, epochs, periods, boundaries, regions) ==
    { [header |-> h, epoch |-> e, height |-> p * PROGPOW_PERIOD, boundary |-> b,
       startNonce |-> r.startNonce, exSizeBits |-> r.exSizeBits] :
        h \in headers, e \in epochs, p \in periods, b \in boundaries, r \in regions }

(* (uint64_t)(u64)((u256)boundary >> 192) *)
Upper64(boundary) == boundary \div 2

(* workLoop: the start nonce handed to search *)
StartN(wp) ==
    IF wp.exSizeBits >= 0
      THEN BitOr(wp.startNonce,
                 Shl(index, NonceBits - LOG2_MAX_MINERS - wp.exSizeBits), NonceBits)
      ELSE wp.startNonce

(* 64 - LOG2_MAX_MINERS - current.exSizeBits, the shift count *)
ShiftAmount(wp) == NonceBits - LOG2_MAX_MINERS - wp.exSizeBits

(* The start nonces workLoop can hand to search.  A shift by a count that  *)
(* is negative or not below the width of the nonce is undefined: the       *)
(* builds either take the count modulo the width (the shift instruction    *)
(* of the machine) or leave nothing of the shifted index.                  *)
StartNs(wp) ==
    IF wp.exSizeBits >= 0 /\ ShiftAmount(wp) \notin 0 .. (NonceBits - 1)
      THEN { BitOr(wp.startNonce, x, NonceBits) :
               x \in {0, Shl(index, ShiftAmount(wp) % NonceBits)} }
      ELSE {StartN(wp)}

(* ethash_get_datasize, in units of the first epoch's DAG: it grows by epoch *)
DagBytes(epoch) == epoch + 1

(* dagBytes / (PROGPOW_LANES * PROGPOW_DAG_LOADS * 4) *)
DagElms(epoch) == DagBytes(epoch)

(* EthashAux::eval(epoch, header, nonce).value, a fixed function of its input *)
EvalValue(epoch, header, nonce) == (epoch + header + nonce) % 4

IdleStream == [depth |-> 0, kicked |-> FALSE, nonce |-> 0, work |-> NoWork]

EmptyBuf == [count |-> 0, result |-> <<>>]

NoEvent == [launch |-> FALSE, dag |-> NoEpoch, light |-> NoEpoch, drained |-> 0,
            submitted |-> <<>>, failed |-> 0, touched_busy |-> FALSE]

(* the worker before its thread starts *)
WorkerStart ==
    /\ farm_work = NoWork
    /\ m_new_work = FALSE
    /\ should_stop = FALSE
    /\ n_works = 0
    /\ pc = "workLoop"
    /\ current = [NoWork EXCEPT !.header = 1]
    /\ old_period_seed = -1
    /\ w = NoWork
    /\ m_current_header = 0
    /\ m_current_target = 0
    /\ m_starting_nonce = 0
    /\ m_current_nonce = 0
    /\ m_current_index = 0
    /\ m_dag = NoEpoch
    /\ m_dag_elms = -1
    /\ m_light = NoEpoch
    /\ handles_ok = FALSE
    /\ m_kernel = [period |-> -1, live |-> FALSE]
    /\ stream = [i \in Streams |-> IdleStream]
    /\ buf = [i \in Streams |-> EmptyBuf]
    /\ ev = NoEvent
    /\ kick_at = -1
    /\ oom_epoch = NoEpoch
    /\ compile_failed = FALSE
    /\ initialize = FALSE

(* configureGPU: the defaults, and a device on which every DAG fits *)
DefaultConfig ==
    /\ s_numStreams = 2
    /\ s_noeval = FALSE

(* CUDAMiner::kick_miner.  Every launch not yet drained is marked as       *)
(* kicked, and kick_at remembers current_index at the first kick that     *)
(* reaches the worker inside the search loop after a launch.              *)
kick_miner ==
    /\ m_new_work' = TRUE
    /\ stream' = [i \in Streams |->
                     IF stream[i].depth > 0 THEN [stream[i] EXCEPT !.kicked = TRUE]
                     ELSE stream[i]]
    /\ buf' = [i \in Streams |->
                  [buf[i] EXCEPT !.result =
                      [j \in 1 .. Len(@) |-> [@[j] EXCEPT !.kicked = TRUE]]]]
    /\ kick_at' = IF pc \in {"loop", "check"} /\ m_current_index >= 1 /\ kick_at = -1
                    THEN m_current_index ELSE kick_at

(* the farm publishes a work package and kicks the worker *)
setWork(works) ==
    /\ n_works < MaxWorks
    /\ pc \notin {"exited", "crashed"}
    /\ \E wp \in works : farm_work' = wp
    /\ n_works' = n_works + 1
    /\ kick_miner
    /\ UNCHANGED <<s_numStreams, s_noeval, index, totalGlobalMem, should_stop, pc, ev,
                   current, old_period_seed, w, m_current_header, m_current_target,
                   m_starting_nonce, m_current_nonce, m_current_index, m_dag,
                   m_dag_elms, m_light, handles_ok, m_kernel, oom_epoch,
                   compile_failed, initialize>>
    /\ UNCHANGED <<stratumVars, loadVars>>

(* Worker::stopWorking *)
stopWorking ==
    /\ ~should_stop
    /\ pc \notin {"stopped", "exited", "crashed"}
    /\ should_stop' = TRUE
    /\ UNCHANGED <<ev, s_numStreams, s_noeval, index, totalGlobalMem, farm_work,
                   m_new_work, n_works, pc, current, old_period_seed, w,
                   m_current_header, m_current_target, m_starting_nonce,
                   m_current_nonce, m_current_index, m_dag, m_dag_elms, m_light,
                   handles_ok, m_kernel, stream, buf, kick_at, oom_epoch,
                   compile_failed, initialize>>
    /\ UNCHANGED <<stratumVars, loadVars>>

(* what one launch of progpow_search may leave in its buffer *)
Found == {<<>>, <<BatchSize - 1>>}

(* the device completes the oldest launch on stream i *)
KernelCompletes ==
    /\ pc \notin {"stopped", "exited", "crashed"}
    /\ \E i \in Streams :
         /\ stream[i].depth > 0
         /\ stream' = [stream EXCEPT ![i].depth = @ - 1]
         /\ \E found \in Found :
              buf' = [buf EXCEPT
                        ![i].count = @ + Len(found),
                        ![i].result = @ \o [j \in 1 .. Len(found) |->
                                              [gid |-> found[j],
                                               kicked |-> stream[i].kicked,
                                               nonce |-> stream[i].nonce,
                                               work |-> stream[i].work]]]
    /\ UNCHANGED <<ev, s_numStreams, s_noeval, index, totalGlobalMem, farm_work,
                   m_new_work, should_stop, n_works, pc, current, old_period_seed,
                   w, m_current_header, m_current_target, m_starting_nonce,
                   m_current_nonce, m_current_index, m_dag, m_dag_elms, m_light,
                   handles_ok, m_kernel, kick_at, oom_epoch, compile_failed,
                   initialize>>
    /\ UNCHANGED <<stratumVars, loadVars>>

(* the members cuda_init, compileKernel and cudaDeviceReset write *)
Device == [m_dag |-> m_dag, m_dag_elms |-> m_dag_elms, m_light |-> m_light,
           handles_ok |-> handles_ok, m_kernel |-> m_kernel, stream |-> stream,
           buf |-> buf, m_current_header |-> m_current_header,
           m_current_target |-> m_current_target,
           m_current_nonce |-> m_current_nonce,
           m_current_index |-> m_current_index, oom |-> NoEpoch]

(* cudaDeviceReset: every allocation, stream and module of the device goes *)
cudaDeviceReset(d) ==
    [d EXCEPT !.stream = [i \in Streams |-> IdleStream],
              !.buf = [i \in Streams |-> EmptyBuf],
              !.m_kernel.live = FALSE]

(* device_props.totalGlobalMem < dagBytes *)
InsufficientMemory(epoch) == totalGlobalMem < DagBytes(epoch)

(* CUDAMiner::cuda_init when no CUDA call fails.  m_search_buf and m_streams *)
(* are replaced by fresh arrays first; only the re-creation branch fills     *)
(* them.  When the DAG does not fit it returns false with nothing rebuilt.   *)
cuda_init(d, epoch) ==
    LET recreate == DagElms(epoch) # d.m_dag_elms \/ d.m_dag = NoEpoch
        d0 == [d EXCEPT !.handles_ok = FALSE]
    IN  IF recreate /\ InsufficientMemory(epoch)
          THEN [d0 EXCEPT !.oom = epoch]
        ELSE IF recreate
          THEN [cudaDeviceReset(d0) EXCEPT
                   !.m_light = epoch,
                   !.handles_ok = TRUE,
                   !.m_current_header = 0,
                   !.m_current_target = 0,
                   !.m_current_nonce = 0,
                   !.m_current_index = 0,
                   !.m_dag = epoch,
                   !.m_dag_elms = DagElms(epoch)]
        ELSE [d0 EXCEPT !.m_light = epoch]

(* CUDAMiner::compileKernel when NVRTC and the module load succeed *)
compileKernel(d, height) ==
    [d EXCEPT !.m_kernel = [period |-> height \div PROGPOW_PERIOD, live |-> TRUE]]

(* what a failing CUDA, NVRTC or driver call does to the worker: the macros *)
(* throw cuda_runtime_error, which workLoop and cuda_init answer by exit(-1) *)
ContinueToNextPoll == "workLoop"
FatalGpuError == "exited"

(* std::runtime_error in init: exit(1) under --exit, otherwise the loop is  *)
(* left and the thread ends after the device reset                          *)
RuntimeError(s_exit) == IF s_exit THEN "exited" ELSE "stopped"

InitOutcomes == {"ok", "cuda_runtime_error", "runtime_error"}
CompileOutcomes == {"ok", "cuda_runtime_error"}

(* the device members take the values of record d; pc and the bookkeeping   *)
(* of the failing calls are set by the caller                                *)
SetDevice(d) ==
    /\ m_dag' = d.m_dag
    /\ m_dag_elms' = d.m_dag_elms
    /\ m_light' = d.m_light
    /\ handles_ok' = d.handles_ok
    /\ m_kernel' = d.m_kernel
    /\ stream' = d.stream
    /\ buf' = d.buf
    /\ m_current_header' = d.m_current_header
    /\ m_current_target' = d.m_current_target
    /\ m_current_nonce' = d.m_current_nonce
    /\ m_current_index' = d.m_current_index
    /\ oom_epoch' = IF d.oom # NoEpoch THEN d.oom ELSE oom_epoch

(* one pass of the while loop of CUDAMiner::workLoop up to the call of search *)
workLoop ==
    /\ pc = "workLoop"
    /\ ev' = NoEvent
    /\ IF should_stop
         THEN /\ pc' = "stopped"
              /\ SetDevice(cudaDeviceReset(Device))
              /\ UNCHANGED <<w, current, old_period_seed, compile_failed>>
         ELSE LET wp == farm_work
                  period_seed == wp.height \div PROGPOW_PERIOD
                  changed == \/ current.header # wp.header
                             \/ current.epoch # wp.epoch
                             \/ old_period_seed # period_seed
                  needInit == current.epoch # wp.epoch
                  needCompile == old_period_seed # period_seed
              IN  /\ w' = wp
                  /\ IF ~changed
                       THEN /\ pc' = "search"
                            /\ SetDevice(Device)
                            /\ UNCHANGED <<current, old_period_seed, compile_failed>>
                     ELSE IF wp.header = 0
                       THEN /\ pc' = "workLoop"
                            /\ SetDevice(Device)
                            /\ UNCHANGED <<current, old_period_seed, compile_failed>>
                     ELSE \E io \in InitOutcomes, co \in CompileOutcomes, s_exit \in BOOLEAN :
                            LET d1 == IF needInit THEN cuda_init(Device, wp.epoch) ELSE Device
                                d2 == IF needCompile THEN compileKernel(d1, wp.height) ELSE d1
                            IN  IF needInit /\ io = "cuda_runtime_error"
                                  THEN /\ pc' = FatalGpuError
                                       /\ SetDevice(Device)
                                       /\ UNCHANGED <<current, old_period_seed, compile_failed>>
                                ELSE IF needInit /\ io = "runtime_error"
                                  THEN /\ pc' = RuntimeError(s_exit)
                                       /\ SetDevice(IF s_exit THEN Device
                                                    ELSE cudaDeviceReset(Device))
                                       /\ UNCHANGED <<current, old_period_seed, compile_failed>>
                                ELSE IF needCompile /\ co = "cuda_runtime_error"
                                  THEN /\ pc' = FatalGpuError
                                       /\ compile_failed' = TRUE
                                       /\ SetDevice(d1)
                                       /\ UNCHANGED <<current, old_period_seed>>
                                ELSE /\ pc' = "search"
                                     /\ SetDevice(d2)
                                     /\ old_period_seed' = period_seed
                                     /\ current' = wp
                                     /\ UNCHANGED compile_failed
    /\ UNCHANGED <<s_numStreams, s_noeval, index, totalGlobalMem, farm_work,
                   m_new_work, should_stop, n_works, m_starting_nonce, kick_at,
                   initialize>>
    /\ UNCHANGED <<stratumVars, loadVars>>

Min(a, b) == IF a < b THEN a ELSE b

(* cudaDeviceSynchronize returns when every launch on the device is done *)
NoDeviceSynchronize == TRUE
cudaDeviceSynchronize == \A i \in Streams : stream[i].depth = 0

(* cudaStreamSynchronize(stream) returns when the launches on it are done *)
NoStreamSynchronize(i) == TRUE
cudaStreamSynchronize(i) == stream[i].depth = 0

(* m_starting_nonce != _startN *)
NeverReset(a, b) == FALSE
NonceRegionChanged(a, b) == a # b

(* r.value < w.boundary *)
AcceptsAll(value, boundary) == TRUE
EvalAccepts(value, boundary) == value < boundary

(* the value of m_new_work a Solution is built with *)
AlwaysStale == TRUE
StaleFlag == m_new_work

(* m_new_work.compare_exchange_strong(t, false) with t = true *)
NeverExchanged == FALSE
compare_exchange_strong == m_new_work

(* get_start_nonce(): a random 64-bit value *)
RandomNonces == {1, NonceMod - 2}

(* m_search_buf and m_streams hold indeterminate values after a cuda_init   *)
(* that did not re-create them.  A use of such a handle faults, or the      *)
(* driver rejects it, or it is taken for a stream and a buffer that are     *)
(* none of the worker's own.                                                *)
Indeterminate == {"fault", "rejected", "accepted"}

(* CUDAMiner::search from its entry to the head of while (true) *)
search ==
    /\ pc = "search"
    /\ \E _startN \in StartNs(current) :
       LET header == current.header
           target == Upper64(current.boundary)
           _ethStratum == current.exSizeBits >= 0
           init == m_current_header # header \/ m_current_target # target
           starting == IF _ethStratum /\ init THEN 0 ELSE m_starting_nonce
           reset == _ethStratum /\ NonceRegionChanged(starting, _startN)
       IN  /\ init => cudaDeviceSynchronize
           /\ initialize' = init
           /\ m_current_header' = header
           /\ m_current_target' = target
           /\ \E ub \in Indeterminate, r \in RandomNonces :
                IF init /\ ~handles_ok /\ ub # "accepted"
                  THEN /\ pc' = "crashed"
                       /\ UNCHANGED <<m_starting_nonce, m_current_nonce,
                                      m_current_index, buf>>
                       /\ ev' = NoEvent
                  ELSE /\ pc' = "loop"
                       /\ m_starting_nonce' = IF reset THEN _startN ELSE starting
                       /\ m_current_nonce' = IF reset THEN _startN
                                             ELSE IF ~_ethStratum /\ init THEN r
                                             ELSE m_current_nonce
                       /\ m_current_index' = IF init THEN 0 ELSE m_current_index
                       /\ buf' = IF init /\ handles_ok
                                   THEN [i \in Streams |-> EmptyBuf] ELSE buf
                       /\ ev' = [NoEvent EXCEPT !.touched_busy =
                                    init /\ handles_ok
                                         /\ \E i \in Streams : stream[i].depth > 0]
    /\ UNCHANGED <<s_numStreams, s_noeval, index, totalGlobalMem, farm_work,
                   m_new_work, should_stop, n_works, current, old_period_seed, w,
                   m_dag, m_dag_elms, m_light, handles_ok, m_kernel, stream,
                   kick_at, oom_epoch, compile_failed>>
    /\ UNCHANGED <<stratumVars, loadVars>>

(* the Solutions and failedSolution calls the drained results lead to *)
RECURSIVE Handle(_, _, _)
Handle(results, nonce_base, e) ==
    IF results = <<>> THEN e
    ELSE LET r == Head(results)
             nonce == (nonce_base + r.gid) % NonceMod
             value == EvalValue(w.epoch, w.header, nonce)
             sol == [nonce |-> nonce, stale |-> StaleFlag, kicked |-> r.kicked,
                     gid |-> r.gid, launch_nonce |-> r.nonce, launch_work |-> r.work,
                     work |-> w,
                     value |-> value, boundary |-> w.boundary, header |-> w.header]
             e1 == IF s_noeval \/ EvalAccepts(value, w.boundary)
                     THEN [e EXCEPT !.submitted = Append(@, sol)]
                     ELSE [e EXCEPT !.failed = @ + 1]
         IN  Handle(Tail(results), nonce_base, e1)

(* one pass of while (true) in CUDAMiner::search, up to addHashCount *)
search_loop ==
    /\ pc = "loop"
    /\ m_current_index < MaxIndex
    /\ LET idx == m_current_index + 1
           nonce == (m_current_nonce + BatchSize) % NonceMod
           stream_index == idx % s_numStreams
           nonce_base == (nonce - s_numStreams * BatchSize) % NonceMod
           drains == idx >= s_numStreams
       IN  /\ (drains /\ handles_ok) => cudaStreamSynchronize(stream_index)
           /\ m_current_index' = idx
           /\ m_current_nonce' = nonce
           /\ \E ub \in Indeterminate, garbage \in Found :
                LET read == IF handles_ok THEN buf[stream_index]
                            ELSE [count |-> Len(garbage),
                                  result |-> [j \in 1 .. Len(garbage) |->
                                                [gid |-> garbage[j], kicked |-> FALSE,
                                                 nonce |-> 0, work |-> NoWork]]]
                    found_count == IF drains THEN Min(read.count, SEARCH_RESULTS) ELSE 0
                    results == SubSeq(read.result, 1, found_count)
                    launched == [NoEvent EXCEPT
                                   !.launch = TRUE,
                                   !.dag = m_dag,
                                   !.light = m_light,
                                   !.drained = found_count,
                                   !.touched_busy = drains /\ handles_ok
                                                    /\ stream[stream_index].depth > 0]
                IN  IF ~handles_ok /\ ub = "fault"
                      THEN /\ pc' = "crashed"
                           /\ ev' = NoEvent
                           /\ UNCHANGED <<buf, stream>>
                    ELSE IF ~m_kernel.live \/ (~handles_ok /\ ub = "rejected")
                      THEN /\ pc' = FatalGpuError
                           /\ ev' = NoEvent
                           /\ buf' = IF handles_ok /\ found_count > 0
                                       THEN [buf EXCEPT ![stream_index] = EmptyBuf]
                                       ELSE buf
                           /\ UNCHANGED stream
                    ELSE /\ pc' = IF drains THEN "check" ELSE "loop"
                         /\ buf' = IF handles_ok /\ found_count > 0
                                     THEN [buf EXCEPT ![stream_index] = EmptyBuf]
                                     ELSE buf
                         /\ stream' = IF handles_ok
                                        THEN [stream EXCEPT ![stream_index] =
                                                 [depth |-> @.depth + 1,
                                                  kicked |-> FALSE,
                                                  nonce |-> nonce,
                                                  work |-> w]]
                                        ELSE stream
                         /\ ev' = Handle(results, nonce_base, launched)
    /\ UNCHANGED <<s_numStreams, s_noeval, index, totalGlobalMem, farm_work,
                   m_new_work, should_stop, n_works, current, old_period_seed, w,
                   m_current_header, m_current_target, m_starting_nonce, m_dag,
                   m_dag_elms, m_light, handles_ok, m_kernel, kick_at, oom_epoch,
                   compile_failed, initialize>>
    /\ UNCHANGED <<stratumVars, loadVars>>

(* the end of a pass with m_current_index >= s_numStreams: the exchange on  *)
(* m_new_work, then shouldStop()                                            *)
search_check ==
    /\ pc = "check"
    /\ IF compare_exchange_strong \/ should_stop
         THEN /\ m_new_work' = FALSE
              /\ pc' = "workLoop"
              /\ kick_at' = -1
         ELSE /\ pc' = "loop"
              /\ UNCHANGED <<m_new_work, kick_at>>
    /\ ev' = NoEvent
    /\ UNCHANGED <<s_numStreams, s_noeval, index, totalGlobalMem, farm_work,
                   should_stop, n_works, current, old_period_seed, w,
                   m_current_header, m_current_target, m_starting_nonce,
                   m_current_nonce, m_current_index, m_dag, m_dag_elms, m_light,
                   handles_ok, m_kernel, stream, buf, oom_epoch, compile_failed,
                   initialize>>
    /\ UNCHANGED <<stratumVars, loadVars>>

(* the session of the worker's pool client, before connect *)
StratumIdle == StratumInit /\ cfg = [version |-> "STRATUM", secure |-> FALSE]

-----------------------------------------------------------------------------
(***************************************************************************)
(* The DAG load modes SEQUENTIAL and SINGLE.  MaxInstances workers share   *)
(* the statics s_dagLoadIndex and s_dagInHostMemory; each runs             *)
(* CUDAMiner::init for every epoch the farm's work moves to.  The workers  *)
(* are threads: init is taken apart at every access to a shared static.    *)
(* A host buffer is named by the epoch it was generated for, 0 is NULL.    *)
(***************************************************************************)
MaxInstances == 2
MaxLoadEpoch == 2

Workers == 0 .. MaxInstances - 1

s_numInstances == MaxInstances

LoadModes == {"SEQUENTIAL", "SINGLE"}

NoLoadEvent == [early_free |-> FALSE, read_after_free |-> FALSE, index_fell |-> FALSE]

LoadStart(mode, creator) ==
    /\ s_dagLoadMode = mode
    /\ s_dagCreateDevice = creator
    /\ s_dagLoadIndex = 0
    /\ s_dagInHostMemory = 0
    /\ load_epoch = 0
    /\ init_pc = [i \in Workers |-> "idle"]
    /\ init_epoch = [i \in Workers |-> 0]
    /\ loaded = [i \in Workers |-> 0]
    /\ reg = [i \in Workers |-> 0]
    /\ hdag = [i \in Workers |-> 0]
    /\ freed = [e \in 1..MaxLoadEpoch |-> 0]
    /\ lev = NoLoadEvent

(* the default mode, PARALLEL: no worker waits for another *)
LoadIdle == LoadStart("PARALLEL", 0)

(* the farm's work moves to the next epoch *)
NewEpoch ==
    /\ load_epoch < MaxLoadEpoch
    /\ load_epoch' = load_epoch + 1
    /\ UNCHANGED <<s_dagLoadMode, s_dagCreateDevice, s_dagLoadIndex,
                   s_dagInHostMemory, init_pc, init_epoch, loaded, reg, hdag,
                   freed, lev>>
    /\ UNCHANGED <<stratumVars, workerVars>>

(* workLoop sees work of another epoch and calls init(epoch) *)
init_call(i) ==
    /\ init_pc[i] = "idle"
    /\ init_epoch[i] < load_epoch
    /\ init_epoch' = [init_epoch EXCEPT ![i] = load_epoch]
    /\ init_pc' = [init_pc EXCEPT ![i] = "wait_turn"]
    /\ UNCHANGED <<s_dagLoadMode, s_dagCreateDevice, s_dagLoadIndex,
                   s_dagInHostMemory, load_epoch, loaded, reg, hdag, freed, lev>>
    /\ UNCHANGED <<stratumVars, workerVars>>

(* SEQUENTIAL: while (s_dagLoadIndex < index) sleep *)
MyTurn(i) == s_dagLoadIndex >= i

init_wait(i) ==
    /\ init_pc[i] = "wait_turn"
    /\ s_dagLoadMode = "SEQUENTIAL" => MyTurn(i)
    /\ init_pc' = [init_pc EXCEPT ![i] = "cuda_init"]
    /\ UNCHANGED <<s_dagLoadMode, s_dagCreateDevice, s_dagLoadIndex,
                   s_dagInHostMemory, load_epoch, init_epoch, loaded, reg, hdag,
                   freed, lev>>
    /\ UNCHANGED <<stratumVars, workerVars>>

(* cuda_init up to the DAG: generate it (and, in SINGLE mode, copy it to a *)
(* new host buffer), wait for the host buffer, or go and copy from it      *)
cuda_init_dag(i) ==
    /\ init_pc[i] = "cuda_init"
    /\ IF s_dagInHostMemory = 0
         THEN IF i = s_dagCreateDevice \/ s_dagLoadMode # "SINGLE"
                THEN /\ loaded' = [loaded EXCEPT ![i] = init_epoch[i]]
                     /\ s_dagInHostMemory' = IF s_dagLoadMode = "SINGLE"
                                               THEN init_epoch[i] ELSE 0
                     /\ init_pc' = [init_pc EXCEPT ![i] = "incr"]
                ELSE /\ init_pc' = [init_pc EXCEPT ![i] = "wait_host"]
                     /\ UNCHANGED <<loaded, s_dagInHostMemory>>
         ELSE /\ init_pc' = [init_pc EXCEPT ![i] = "cpyDag"]
              /\ UNCHANGED <<loaded, s_dagInHostMemory>>
    /\ UNCHANGED <<s_dagLoadMode, s_dagCreateDevice, s_dagLoadIndex, load_epoch,
                   init_epoch, reg, hdag, freed, lev>>
    /\ UNCHANGED <<stratumVars, workerVars>>

(* while (!hostDAG) sleep; goto cpyDag *)
wait_host(i) ==
    /\ init_pc[i] = "wait_host"
    /\ s_dagInHostMemory # 0
    /\ init_pc' = [init_pc EXCEPT ![i] = "cpyDag"]
    /\ UNCHANGED <<s_dagLoadMode, s_dagCreateDevice, s_dagLoadIndex,
                   s_dagInHostMemory, load_epoch, init_epoch, loaded, reg, hdag,
                   freed, lev>>
    /\ UNCHANGED <<stratumVars, workerVars>>

(* cpyDag: hdag = hostDAG, and cudaMemcpy starts reading from it.  A null  *)
(* pointer (the buffer was freed since the test) faults.                   *)
cpyDag(i) ==
    /\ init_pc[i] = "cpyDag"
    /\ hdag' = [hdag EXCEPT ![i] = s_dagInHostMemory]
    /\ init_pc' = [init_pc EXCEPT ![i] =
                      IF s_dagInHostMemory = 0 THEN "crashed" ELSE "cudaMemcpy"]
    /\ UNCHANGED <<s_dagLoadMode, s_dagCreateDevice, s_dagLoadIndex,
                   s_dagInHostMemory, load_epoch, init_epoch, loaded, reg,
                   freed, lev>>
    /\ UNCHANGED <<stratumVars, workerVars>>

(* reading a buffer that was deleted meanwhile: the copy delivers whatever *)
(* the heap holds now, or faults                                           *)
AfterFree == {"garbage", "fault"}

(* cudaMemcpy from the host buffer completes *)
cudaMemcpy(i) ==
    /\ init_pc[i] = "cudaMemcpy"
    /\ \E outcome \in AfterFree :
         IF freed[hdag[i]] = 0
           THEN /\ loaded' = [loaded EXCEPT ![i] = hdag[i]]
                /\ init_pc' = [init_pc EXCEPT ![i] = "incr"]
                /\ UNCHANGED lev
           ELSE /\ lev' = [lev EXCEPT !.read_after_free = TRUE]
                /\ loaded' = [loaded EXCEPT ![i] = -1]
                /\ init_pc' = [init_pc EXCEPT ![i] =
                                  IF outcome = "fault" THEN "crashed" ELSE "incr"]
    /\ UNCHANGED <<s_dagLoadMode, s_dagCreateDevice, s_dagLoadIndex,
                   s_dagInHostMemory, load_epoch, init_epoch, reg, hdag, freed>>
    /\ UNCHANGED <<stratumVars, workerVars>>

(* s_dagLoadIndex++ on a plain static: the load ... *)
incr_load(i) ==
    /\ init_pc[i] = "incr"
    /\ reg' = [reg EXCEPT ![i] = s_dagLoadIndex]
    /\ init_pc' = [init_pc EXCEPT ![i] = "store"]
    /\ UNCHANGED <<s_dagLoadMode, s_dagCreateDevice, s_dagLoadIndex,
                   s_dagInHostMemory, load_epoch, init_epoch, loaded, hdag,
                   freed, lev>>
    /\ UNCHANGED <<stratumVars, workerVars>>

(* ... and the store of the incremented value *)
incr_store(i) ==
    /\ init_pc[i] = "store"
    /\ s_dagLoadIndex' = reg[i] + 1
    /\ lev' = [lev EXCEPT !.index_fell = @ \/ (reg[i] + 1 < s_dagLoadIndex)]
    /\ init_pc' = [init_pc EXCEPT ![i] = "loaded"]
    /\ UNCHANGED <<s_dagLoadMode, s_dagCreateDevice, s_dagInHostMemory,
                   load_epoch, init_epoch, loaded, reg, hdag, freed>>
    /\ UNCHANGED <<stratumVars, workerVars>>

(* SINGLE: if (s_dagLoadIndex >= s_numInstances && s_dagInHostMemory) *)
AllLoaded == s_dagLoadIndex >= s_numInstances

init_check(i) ==
    /\ init_pc[i] = "loaded"
    /\ IF s_dagLoadMode = "SINGLE" /\ AllLoaded /\ s_dagInHostMemory # 0
         THEN /\ hdag' = [hdag EXCEPT ![i] = s_dagInHostMemory]
              /\ init_pc' = [init_pc EXCEPT ![i] = "delete"]
         ELSE /\ init_pc' = [init_pc EXCEPT ![i] = "idle"]
              /\ UNCHANGED hdag
    /\ UNCHANGED <<s_dagLoadMode, s_dagCreateDevice, s_dagLoadIndex,
                   s_dagInHostMemory, load_epoch, init_epoch, loaded, reg,
                   freed, lev>>
    /\ UNCHANGED <<stratumVars, workerVars>>

(* delete[] s_dagInHostMemory; s_dagInHostMemory = NULL; return true *)
init_free(i) ==
    /\ init_pc[i] = "delete"
    /\ freed' = [freed EXCEPT ![hdag[i]] = @ + 1]
    /\ s_dagInHostMemory' = 0
    /\ lev' = [lev EXCEPT !.early_free =
                  @ \/ (\E j \in Workers : loaded[j] # hdag[i])]
    /\ init_pc' = [init_pc EXCEPT ![i] = "idle"]
    /\ UNCHANGED <<s_dagLoadMode, s_dagCreateDevice, s_dagLoadIndex, load_epoch,
                   init_epoch, loaded, reg, hdag>>
    /\ UNCHANGED <<stratumVars, workerVars>>

LoadInit ==
    /\ StratumIdle
    /\ DefaultConfig
    /\ index = 0
    /\ totalGlobalMem = DagBytes(MaxEpoch)
    /\ WorkerStart
    /\ \E mode \in LoadModes, creator \in Workers : LoadStart(mode, creator)

LoadNext ==
    \/ NewEpoch
    \/ \E i \in Workers :
         \/ init_call(i)
         \/ init_wait(i)
         \/ cuda_init_dag(i)
         \/ wait_host(i)
         \/ cpyDag(i)
         \/ cudaMemcpy(i)
         \/ incr_load(i)
         \/ incr_store(i)
         \/ init_check(i)
         \/ init_free(i)

LoadSpec == LoadInit /\ [][LoadNext]_vars


(* one step of worker i's thread inside workLoop's call of init *)
InitThread(i) ==
    \/ init_call(i)
    \/ init_wait(i)
    \/ cuda_init_dag(i)
    \/ wait_host(i)
    \/ cpyDag(i)
    \/ cudaMemcpy(i)
    \/ incr_load(i)
    \/ incr_store(i)
    \/ init_check(i)
    \/ init_free(i)

(* every worker is a thread of its own: one that can take a step is        *)
(* scheduled; the generation of the DAG is a step that always completes    *)
LoadFairness == \A i \in Workers : WF_vars(InitThread(i))

LoadFairSpec == LoadSpec /\ LoadFairness

(***************************************************************************)
(* Shutdown beside the DAG load.  Worker::stopWorking sets should_stop for *)
(* the workers; each worker tests it at the head of its workLoop only (and *)
(* inside search): the waits of init and cuda_init do not look at it.      *)
(***************************************************************************)
(* while (!shouldStop()): the worker takes the work and calls init *)
workLoop_init(i) ==
    /\ ~should_stop
    /\ init_call(i)

(* while (!shouldStop()) fails: cudaDeviceReset(), and workLoop returns *)
workLoop_exit(i) ==
    /\ should_stop
    /\ init_pc[i] = "idle"
    /\ init_pc' = [init_pc EXCEPT ![i] = "stopped"]
    /\ loaded' = [loaded EXCEPT ![i] = 0]
    /\ UNCHANGED <<s_dagLoadMode, s_dagCreateDevice, s_dagLoadIndex,
                   s_dagInHostMemory, load_epoch, init_epoch, reg, hdag,
                   freed, lev>>
    /\ UNCHANGED <<stratumVars, workerVars>>

(* one step of worker i's thread *)
WorkerThread(i) ==
    \/ workLoop_init(i)
    \/ workLoop_exit(i)
    \/ init_wait(i)
    \/ cuda_init_dag(i)
    \/ wait_host(i)
    \/ cpyDag(i)
    \/ cudaMemcpy(i)
    \/ incr_load(i)
    \/ incr_store(i)
    \/ init_check(i)
    \/ init_free(i)

ShutdownNext ==
    \/ NewEpoch
    \/ stopWorking
    \/ \E i \in Workers : WorkerThread(i)

ShutdownSpec == LoadInit /\ [][ShutdownNext]_vars

(* every worker thread that can take a step is scheduled *)
ShutdownFairness == \A i \in Workers : WF_vars(WorkerThread(i))

ShutdownFairSpec == ShutdownSpec /\ ShutdownFairness

(* work packages that differ in epoch and ProgPoW period *)
DeviceWorks == WorkPackages({1}, 0 .. MaxEpoch, 0 .. MaxPeriod, {2},
                            {[startNonce |-> 0, exSizeBits |-> -1]})

DeviceInit ==
    /\ StratumIdle
    /\ DefaultConfig
    /\ index = 0
    /\ totalGlobalMem \in { DagBytes(e) : e \in 0 .. MaxEpoch }
    /\ WorkerStart
    /\ LoadIdle

DeviceNext ==
    \/ setWork(DeviceWorks)
    \/ stopWorking
    \/ KernelCompletes
    \/ workLoop
    \/ search
    \/ search_loop
    \/ search_check

DeviceSpec == DeviceInit /\ [][DeviceNext]_vars

(* work packages that differ in header and in solo or stratum style; the  *)
(* worker runs with every number of streams and with or without eval      *)
SearchWorks == WorkPackages(1 .. MaxHeader, {0}, {0}, {2},
                            { [startNonce |-> 0, exSizeBits |-> -1],
                              [startNonce |-> 58, exSizeBits |-> 4] })

SearchInit ==
    /\ StratumIdle
    /\ s_numStreams \in 1 .. MaxStreams
    /\ s_noeval \in BOOLEAN
    /\ index = 0
    /\ totalGlobalMem = DagBytes(MaxEpoch)
    /\ WorkerStart
    /\ LoadIdle

SearchNext ==
    \/ setWork(SearchWorks)
    \/ stopWorking
    \/ KernelCompletes
    \/ workLoop
    \/ search
    \/ search_loop
    \/ search_check

SearchSpec == SearchInit /\ [][SearchNext]_vars

(* work packages that differ in header and nonce region, for the first two *)
(* workers of a farm in the default configuration                          *)
NonceWorks == WorkPackages(1 .. MaxHeader, {0}, {0}, {2}, NonceRegions)

NonceInit ==
    /\ StratumIdle
    /\ DefaultConfig
    /\ index \in {0, 1}
    /\ totalGlobalMem = DagBytes(MaxEpoch)
    /\ WorkerStart
    /\ LoadIdle

NonceNext ==
    \/ setWork(NonceWorks)
    \/ stopWorking
    \/ KernelCompletes
    \/ workLoop
    \/ search
    \/ search_loop
    \/ search_check

NonceSpec == NonceInit /\ [][NonceNext]_vars

(* the pool client beside a worker that has not been given work *)
(* work packages of one header, epoch and period that differ in boundary   *)
(* and in nonce region                                                     *)
TargetWorks == WorkPackages({1}, {0}, {0}, {1, 2}, NonceRegions)

TargetNext ==
    \/ setWork(TargetWorks)
    \/ stopWorking
    \/ KernelCompletes
    \/ workLoop
    \/ search
    \/ search_loop
    \/ search_check

TargetSpec == NonceInit /\ [][TargetNext]_vars

(* work packages of one header, epoch and boundary that differ in the      *)
(* ProgPoW period and in nonce region                                      *)
ReentryWorks == WorkPackages({1}, {0}, 0 .. MaxPeriod, {2}, NonceRegions)

ReentryNext ==
    \/ setWork(ReentryWorks)
    \/ stopWorking
    \/ KernelCompletes
    \/ workLoop
    \/ search
    \/ search_loop
    \/ search_check

ReentrySpec == NonceInit /\ [][ReentryNext]_vars

(* the nonce regions of an extranonce of no digit, of one hex digit and of *)
(* the nonce's full width                                                  *)
ShiftRegions == { [startNonce |-> 0, exSizeBits |-> 0],
                  [startNonce |-> 48, exSizeBits |-> 4],
                  [startNonce |-> 58, exSizeBits |-> NonceBits] }

ShiftWorks == WorkPackages(1 .. MaxHeader, {0}, {0}, {2}, ShiftRegions)

ShiftNext ==
    \/ setWork(ShiftWorks)
    \/ stopWorking
    \/ KernelCompletes
    \/ workLoop
    \/ search
    \/ search_loop
    \/ search_check

ShiftSpec == NonceInit /\ [][ShiftNext]_vars

StratumStart ==
    /\ StratumInit
    /\ DefaultConfig
    /\ index = 0
    /\ totalGlobalMem = DagBytes(MaxEpoch)
    /\ WorkerStart
    /\ LoadIdle

StratumSpec == StratumStart /\ [][StratumNext]_vars

(* The io thread runs every handler that is ready and the 2 s of the        *)
(* response timer pass.  The pool owes no answer, the miner no submission,  *)
(* and the work timer need not expire (every notify re-arms it).            *)
StratumFairness ==
    /\ WF_vars(resolve_handler)
    /\ WF_vars(connect_handler)
    /\ WF_vars(handleResponse)
    /\ WF_vars(ReadResponse(FALSE))
    /\ WF_vars(ResponseTimerExpires)
    /\ WF_vars(response_timeout_handler)
    /\ WF_vars(work_timeout_handler)

StratumFairSpec == StratumSpec /\ StratumFairness

LoginSpec == StratumStart /\ [][LoginNext]_vars

(* The io thread runs every handler that is ready, a line that has        *)
(* arrived is read, and m_worktimeout seconds pass unless the timer is    *)
(* armed anew in between (gen tells one arming from the next).  The pool  *)
(* owes no line and no transport error need happen.                       *)
LoginFairness ==
    /\ WF_vars(resolve_handler)
    /\ WF_vars(connect_handler)
    /\ WF_vars(handleResponse)
    /\ WF_vars(ReadResponse(FALSE))
    /\ WF_vars(work_timeout_handler)
    /\ \A g \in {0, 1} : WF_vars(WorkTimerExpires /\ work_seen.gen = g)

LoginFairSpec == LoginSpec /\ LoginFairness

ReportStart == StratumStart /\ cfg = [version |-> "STRATUM", secure |-> FALSE]

ReportSpec == ReportStart /\ [][ReportNext]_vars

(* the session through its login chain, the pool's jobs and the pool's    *)
(* malformed lines                                                        *)
MalformedNext ==
    \/ FirstConnect
    \/ resolve_handler
    \/ connect_handler
    \/ handleResponse
    \/ PoolReply
    \/ PoolNotify
    \/ PoolMalformed
    \/ readResponse

MalformedSpec == StratumStart /\ [][MalformedNext]_vars

(* the pool sets the difficulty before it announces the first job *)
InitialDifficulty ==
    /\ m_current.header = 0
    /\ PoolSetDifficulty

(* an ethereum-stratum session in which the pool sets a difficulty and    *)
(* announces jobs                                                         *)
DifficultyNext ==
    \/ FirstConnect
    \/ resolve_handler
    \/ connect_handler
    \/ handleResponse
    \/ InitialDifficulty
    \/ PoolJob
    \/ readResponse

(* the session with its supervisor: connect, the login chain, transport   *)
(* errors, and connect again after every disconnect                       *)
ReconnectNext ==
    \/ connect
    \/ resolve_handler
    \/ connect_handler
    \/ handleResponse
    \/ PoolReply
    \/ readResponse

ReconnectSpec == StratumStart /\ [][ReconnectNext]_vars

(* The io thread runs every handler that is ready.  The supervisor owes   *)
(* no connect and the pool no reply.                                      *)
ReconnectFairness ==
    /\ WF_vars(resolve_handler)
    /\ WF_vars(connect_handler)
    /\ WF_vars(handleResponse)
    /\ WF_vars(ReadResponse(FALSE))

ReconnectFairSpec == ReconnectSpec /\ ReconnectFairness

ExtranonceStart ==
    StratumStart /\ cfg = [version |-> "ETHEREUMSTRATUM", secure |-> FALSE]

ExtranonceSpec == ExtranonceStart /\ [][ExtranonceNext]_vars

NonceStringSpec == ExtranonceStart /\ [][NonceStringNext]_vars

DifficultySpec == ExtranonceStart /\ [][DifficultyNext]_vars

-----------------------------------------------------------------------------
Outcomes == {"accepted", "rejected", "timeout"}

(* submission s was written to a connected socket *)
Sent(s) == s <= Len(subs) /\ subs[s].sent

(* submission s has an outcome, or the process has faulted in the race on *)
(* m_requestBuffer and owes none                                          *)
Settled(s) == s <= Len(subs) /\ (subs[s].outcome # {} \/ link = "crashed")

(* C1: every submitSolution call the engine sends ends in exactly one of     *)
(* on_solution_accepted, on_solution_rejected or the response timer's        *)
(* disconnect: never more than one of them, and eventually one of them, also *)
(* when a second submission is issued before the first one's response.  (A   *)
(* submission whose session is torn down for another reason, or whose        *)
(* process faults in the race of C18, is let off.)                           *)
C1_ExactlyOneOutcome ==
    /\ [](\A s \in 1..Len(subs) : Cardinality(subs[s].outcome \cap Outcomes) <= 1)
    /\ \A s \in 1..MaxSubmits : Sent(s) ~> Settled(s)


-----------------------------------------------------------------------------
(* launches issued and not yet completed, over the worker's streams *)
RECURSIVE SumDepth(_)
SumDepth(n) == IF n = 0 THEN 0 ELSE stream[n - 1].depth + SumDepth(n - 1)

InFlight == SumDepth(s_numStreams)

(* the worker is inside while (true) of search *)
InSearchLoop == pc \in {"loop", "check"}

(* the Solutions handed to the farm by the last pass *)
Submitted == { ev.submitted[j] : j \in 1 .. Len(ev.submitted) }

(* C2: whenever search launches a kernel, the DAG and the light cache on   *)
(* the device were built for current.epoch.                                *)
C2_LaunchOnCurrentEpochDag ==
    ev.launch => (ev.dag = current.epoch /\ ev.light = current.epoch)

(* C3: after a kick that follows a launch in the search loop, the loop     *)
(* leaves search after at most one more launch, whatever current_index     *)
(* was at the kick.                                                        *)
C3_ExitWithinOneLaunch ==
    kick_at >= 0 => m_current_index - kick_at <= 1

(* C3, as the code has it: the exchange on m_new_work is only attempted in *)
(* a pass with m_current_index >= s_numStreams, so a kick at index k is    *)
(* honoured after one more launch when k >= S - 1 and after S - k more     *)
(* launches in the first passes after a re-initialisation.                 *)
C3_ExitWhenPipelineFull ==
    kick_at >= 0 =>
        m_current_index - kick_at <=
            (IF kick_at >= s_numStreams - 1 THEN 1 ELSE s_numStreams - kick_at)

C3_Witness ==
    /\ InSearchLoop
    /\ kick_at >= 1
    /\ kick_at < s_numStreams - 1
    /\ m_current_index = s_numStreams

C5_BufferAfterCompletion ==
    /\ ~ev.touched_busy
    /\ InFlight <= s_numStreams

C5_Witness ==
    /\ ev.launch
    /\ ev.drained > 0
    /\ InFlight = s_numStreams

C7_StaleIffKicked ==
    \A sol \in Submitted : sol.stale = sol.kicked

(* C7, as the code has it: stale is the value of m_new_work when the       *)
(* Solution is built, so a stale Solution was kicked between its launch    *)
(* and its hand-over, but a kick already taken by the exchange leaves the  *)
(* Solution fresh.                                                         *)
C7_StaleImpliesKicked ==
    \A sol \in Submitted : sol.stale => sol.kicked

C7_Witness ==
    \E sol \in Submitted : sol.stale /\ sol.kicked

(* C8: with eval, every drained result is either submitted, and then its   *)
(* recomputed value is below w.boundary, or reported by failedSolution.    *)
C8_EvalGate ==
    ~s_noeval =>
        /\ \A sol \in Submitted :
               EvalValue(w.epoch, sol.header, sol.nonce) < sol.boundary
        /\ ev.drained = Len(ev.submitted) + ev.failed

C8_Witness ==
    /\ ~s_noeval
    /\ ev.drained = 1
    /\ ev.failed = 1

(* C9: after cuda_init found the DAG of an epoch larger than the device's  *)
(* memory, the worker launches no kernel for that epoch.                   *)
C9_NoLaunchWithoutMemory ==
    ev.launch => oom_epoch # current.epoch

(* C10: a failed kernel compilation costs only the current iteration: the  *)
(* worker goes on to the next work poll, thread and process stay alive.    *)
C10_CompileFailureContinues ==
    compile_failed => pc \notin {"exited", "stopped", "crashed"}

(* C10, as the code has it: a failed compilation throws cuda_runtime_error *)
(* and workLoop answers it with exit(-1); nothing is launched afterwards.  *)
C10_CompileFailureExits ==
    compile_failed => (pc = "exited" /\ ~ev.launch)

C10_Witness ==
    /\ compile_failed
    /\ current.epoch # NoEpoch
    /\ pc = "exited"

-----------------------------------------------------------------------------
(* C11: the pending-read counter is 0 or 1 and equals the number of reads    *)
(* scheduled on the socket whose handler has not run: readline never         *)
(* schedules a second read while one is outstanding.                         *)
C11_OneReadPending ==
    /\ m_pending \in {0, 1}
    /\ m_pending = reads

(* a write completed and called readline while a read was outstanding *)
C11_Witness ==
    /\ sev.handler = "handleResponse"
    /\ sev.read_pending
    /\ transport_error.kind = "none"
    /\ reads = 1

-----------------------------------------------------------------------------
(* C12: every transport error (resolve failure, connect failure, TLS        *)
(* handshake failure, socket read error, socket write error) leads to        *)
(* disconnect(): connected and authorized become false and on_disconnected   *)
(* is invoked.                                                               *)
C12_ErrorLeadsToDisconnect ==
    (transport_error.kind # "none") ~>
        (~m_connected /\ ~m_authorized /\ disconnected_cb > transport_error.cb)

-----------------------------------------------------------------------------
(* C13: when the pool answers id=3 (authorize) with result = false the       *)
(* client disconnects: connected and authorized are false, on_disconnected   *)
(* was invoked, and no further read is scheduled on that connection.         *)
C13_RefusedAuthorizationDisconnects ==
    refused =>
        /\ ~m_connected
        /\ ~m_authorized
        /\ disconnected_cb > 0
        /\ link = "down"
        /\ reads = 0
        /\ m_pending = 0

(* the id=3 response with result = false has just been processed *)
C13_Witness ==
    /\ refused
    /\ sev.handler = "readResponse"
    /\ 3 \in pool_replied

-----------------------------------------------------------------------------
(* the login frames of a dialect, in the order of the handshake *)
LoginChain(version) ==
    IF version = "ETHEREUMSTRATUM" THEN <<1, 2, 3>>
    ELSE IF version = "STRATUM" THEN <<1, 3>>
    ELSE <<1, 5>>

(* C14: id=1 (subscribe / login) is sent only after connect (and the TLS     *)
(* handshake, if any) has succeeded; id=3 (authorize) only after the         *)
(* response to id=1 has been processed; for ethereumstratum id=2 goes out    *)
(* before id=3; for ethproxy no id=3 is sent at all.                         *)
C14_LoginChainOrdered ==
    /\ (sev.handler = "connect_handler" /\ sev.wrote) =>
           (m_connected /\ link = "up" /\ transport_error.kind = "none")
    /\ Len(sent) <= Len(LoginChain(cfg.version))
    /\ sent = SubSeq(LoginChain(cfg.version), 1, Len(sent))
    /\ Len(sent) > 1 =>
           /\ 1 \in pool_replied
           /\ \A k \in 1..Len(inbound) : inbound[k].id # 1

(* an ethereumstratum session has sent its whole chain *)
C14_Witness ==
    /\ cfg = [version |-> "ETHEREUMSTRATUM", secure |-> TRUE]
    /\ sent = <<1, 2, 3>>
    /\ sev.handler = "readResponse"
    /\ sev.wrote

-----------------------------------------------------------------------------
(* C15: for the stratum and ethproxy dialects on_work_received is invoked    *)
(* only for a notify whose header differs from the current work package's    *)
(* header: two consecutive emitted packages never carry the same header,     *)
(* and a notify repeating the current header changes no field of the         *)
(* current work package.                                                     *)
C15_NewHeaderOnly ==
    cfg.version # "ETHEREUMSTRATUM" =>
        /\ sev.emitted => ~sev.repeat
        /\ sev.repeat => (~sev.changed /\ ~sev.emitted)

(* a notify repeating the header of the package in use has been processed *)
C15_Witness ==
    /\ cfg.version = "STRATUM"
    /\ sev.handler = "readResponse"
    /\ sev.repeat
    /\ m_current.header = MaxJobs

-----------------------------------------------------------------------------
(* C16: the work timer is re-armed on every receipt of work, in every        *)
(* dialect: a session is disconnected by work timeout only when no work was  *)
(* received between the arming of the timer and its expiry.                  *)
C16_TimeoutOnlyAfterSilence ==
    sev.handler = "work_timeout_handler" => work_seen.at_expiry = {}

(* C16, amended: the work timer is re-armed on every notify that is taken    *)
(* up (ethereumstratum: every notify; stratum and ethproxy: a notify with a  *)
(* new header), after which it runs or has expired; and a work timeout       *)
(* disconnects only when no notify with a new header, and for                *)
(* ethereumstratum no notify at all, was processed between the arming of     *)
(* the timer and its expiry.                                                 *)
C16_TimeoutOnlyWithoutNewWork ==
    /\ sev.emitted =>
           /\ work_seen.since_arm = {}
           /\ worktimer.armed \/ worktimer.queued > 0
    /\ sev.handler = "work_timeout_handler" =>
           /\ "new" \notin work_seen.at_expiry
           /\ cfg.version = "ETHEREUMSTRATUM" => work_seen.at_expiry = {}

(* a stratum session timed out although the pool had repeated the current   *)
(* job while the timer was running                                           *)
C16_Witness ==
    /\ sev.handler = "work_timeout_handler"
    /\ cfg.version = "STRATUM"
    /\ work_seen.at_expiry = {"repeat"}
    /\ ~m_connected

-----------------------------------------------------------------------------
(* C17: after disconnect, and until the next connect(), neither the work     *)
(* timer nor the response timer is armed and response_pending is false,      *)
(* whatever calls (submitSolution, submitHashrate) arrive in between.        *)
C17_QuietWhileDisconnected ==
    (disconnected_cb > 0 /\ link = "down") =>
        /\ ~worktimer.armed
        /\ ~responsetimer.armed
        /\ ~m_response_pending

-----------------------------------------------------------------------------
(* C18: m_requestBuffer is accessed only on the I/O thread: a                *)
(* submitSolution or submitHashrate call made from another thread does not   *)
(* itself write to the request buffer.                                       *)
C18_BufferOnIoThread == sev.wrote => sev.thread = "io"

-----------------------------------------------------------------------------
(* C19: in SINGLE DAG load mode the shared host DAG buffer is freed only     *)
(* after every worker has finished copying from it; it is freed at most      *)
(* once and no worker reads it after the free, for every epoch               *)
(* initialisation.                                                           *)
C19_HostDagFreedSafely ==
    s_dagLoadMode = "SINGLE" =>
        /\ ~lev.early_free
        /\ ~lev.read_after_free
        /\ \A e \in 1..MaxLoadEpoch : freed[e] <= 1
        /\ \A i \in Workers : init_pc[i] # "crashed"

-----------------------------------------------------------------------------
(* the workers between the wait of SEQUENTIAL mode and s_dagLoadIndex++ *)
Initialising ==
    { i \in Workers :
        init_pc[i] \in {"cuda_init", "wait_host", "cpyDag", "cudaMemcpy", "incr", "store"} }

(* C20: in SEQUENTIAL DAG load mode worker i waits until the shared load     *)
(* index is >= i before initialising, the load index never decreases, and    *)
(* at most one worker is initialising at a time, for every epoch             *)
(* initialisation.                                                           *)
C20_SequentialLoad ==
    s_dagLoadMode = "SEQUENTIAL" =>
        /\ \A i \in Initialising : s_dagLoadIndex >= i
        /\ ~lev.index_fell
        /\ Cardinality(Initialising) <= 1

-----------------------------------------------------------------------------
(* the worker threads that have left workLoop, or have faulted *)
Gone == { i \in Workers : init_pc[i] \in {"stopped", "crashed"} }

(* C21: after should_stop is set every worker eventually leaves its work     *)
(* loop, and a worker that has left has reset its device; this holds also    *)
(* for a worker that waits in the SEQUENTIAL or SINGLE DAG load wait when    *)
(* stop is requested.                                                        *)
C21_StopLeadsToExit ==
    /\ [](\A i \in Workers : init_pc[i] = "stopped" => loaded[i] = 0)
    /\ should_stop ~> (Gone = Workers)

-----------------------------------------------------------------------------
(* digit j of a hex string right-padded with '0' *)
PaddedDigit(str, j) == IF j <= Len(str) THEN str[j] ELSE 0

(* C22: after any sequence of id=1 subscribe responses and                   *)
(* mining.set_extranonce notifications extra_nonce_hex_size is in 0..16,     *)
(* and when such a line has been processed extra_nonce is the received hex   *)
(* string right-padded with '0' to 16 hex characters (8 bytes) and           *)
(* extra_nonce_hex_size is the length of the received string.                *)
C22_ExtranoncePadded ==
    /\ m_extraNonceHexSize \in 0..16
    /\ Len(m_extraNonce) = 8
    /\ sev.enonce # NoString =>
           /\ m_extraNonceHexSize = Len(sev.enonce)
           /\ \A j \in 1..16 : toHex(m_extraNonce)[j] = PaddedDigit(sev.enonce, j)

-----------------------------------------------------------------------------
(* the pool-assigned prefix of a work package, in hex digits *)
Prefix(wp) == SubSeq(toHex(wp.startNonce), 1, wp.exSizeBits \div 4)

(* C29: for ethereum-stratum the nonce string of the id=4 frame is the       *)
(* solution nonce's 16 hex digits without the pool-assigned prefix of the    *)
(* solution's own work package: that prefix followed by the string sent is   *)
(* the full nonce, for any interleaving of mining.set_extranonce,            *)
(* mining.notify and submitSolution (stated for extranonces of at most 16    *)
(* hex digits, with which submitSolution does send a frame).                 *)
C29_SubmitStripsPrefix ==
    (/\ cfg.version = "ETHEREUMSTRATUM"
     /\ last_submit.work.exSizeBits \in 0..64
     /\ last_submit.size <= 16)
        => Prefix(last_submit.work) \o last_submit.str = last_submit.nonce


(* a line that is not a JSON object or fails to parse, or a work          *)
(* notification whose header, seed or (stratum, ethproxy) share target is *)
(* missing or empty                                                       *)
Malformed(version, msg) ==
    \/ msg.shape # "object"
    \/ /\ msg.id = 0
       /\ version = "ETHPROXY" \/ msg.method = "mining.notify"
       /\ \/ msg.header = 0
          \/ ~msg.seed
          \/ version # "ETHEREUMSTRATUM" /\ msg.boundary = <<>>

(* C23: a received line that is malformed is ignored without side         *)
(* effects: readResponse emits no work package, leaves connected,         *)
(* authorized, the extranonce, the difficulty and the current work as     *)
(* they were, does not disconnect, and schedules the next read.           *)
C23_MalformedIgnored ==
    [][ (/\ inbound # <<>>
         /\ Malformed(cfg.version, Head(inbound))
         /\ m_connected
         /\ ReadResponse(FALSE))
          => /\ UNCHANGED <<m_connected, m_authorized, m_extraNonce,
                            m_extraNonceHexSize, m_nextWorkDifficulty, m_current>>
             /\ ~sev'.emitted
             /\ link' = "up"
             /\ reads' = 1 /\ m_pending' = 1 ]_vars

(* bit q (0 the least significant) of a 256-bit big-endian integer *)
BitOf(T, q) == IF q < 0 \/ q > 255 THEN 0 ELSE (T[32 - q \div 8] \div 2 ^ (q % 8)) % 2

(* the position of the highest set bit of T, -1 for T = 0: T lies in       *)
(* 2^TopBit(T) .. 2^(TopBit(T) + 1) - 1                                    *)
TopBit(T) ==
    IF \A q \in 0..255 : BitOf(T, q) = 0 THEN -1
    ELSE CHOOSE q \in 0..255 : BitOf(T, q) = 1 /\ \A p \in (q + 1)..255 : BitOf(T, p) = 0

(* the work package emitted by the step just taken has the target of the   *)
(* difficulty 2^m_nextWorkDifficulty                                       *)
TargetOfDifficulty ==
    /\ cfg.version = "ETHEREUMSTRATUM"
    /\ sev.handler = "readResponse" /\ sev.emitted

(* C24 as stated: for every difficulty d >= 1 the target T of              *)
(* diff_to_target(d) satisfies T * d approximately 2^256: with d = 2^e,    *)
(* T * d lies within a factor 2 of 2^256 (its highest set bit is at 255 or *)
(* at 256).                                                                *)
C24_ProductNear2To256 ==
    TargetOfDifficulty =>
        TopBit(m_current.boundary) + m_nextWorkDifficulty \in {255, 256}

(* C24, amended: T = floor((2^224 - 2^208) / d), the 16 bits of 0xFFFF     *)
(* shifted down from bit 208 by log2 d and truncated below bit 0, so that  *)
(* T * d = 2^224 - 2^208 for d <= 2^208 (T * d approximately 2^224).       *)
C24_ProductNear2To224 ==
    TargetOfDifficulty =>
        \A q \in 0..255 :
            BitOf(m_current.boundary, q) =
                IF 208 - m_nextWorkDifficulty <= q /\ q <= 223 - m_nextWorkDifficulty
                  THEN 1 ELSE 0

(* a job announced under the difficulty 2^216: the target keeps the top 8  *)
(* bits of the mantissa, the others are truncated                          *)
C24_Witness ==
    /\ TargetOfDifficulty
    /\ m_nextWorkDifficulty = 216
    /\ m_current.boundary = [i \in 1..32 |-> IF i = 32 THEN 255 ELSE 0]

(* C25: diff_to_target(1.0) is the target whose bytes 4 and 5 (counted     *)
(* from 0, most significant first) are 0xFF and whose other bytes are 0.   *)
C25_TargetOfDifficultyOne ==
    (TargetOfDifficulty /\ m_nextWorkDifficulty = 0)
        => m_current.boundary = [i \in 1..32 |-> IF i \in {5, 6} THEN 255 ELSE 0]

(* a job announced under the difficulty 1 *)
C25_Witness ==
    /\ TargetOfDifficulty
    /\ m_nextWorkDifficulty = 0
    /\ m_current.header # 0
    /\ m_current.boundary[5] = 255

(* C26: in every pass of workLoop that reaches search, the header, the     *)
(* 64-bit target and the start nonce handed to search are those of the     *)
(* work package w read from the farm in that pass, and search runs its     *)
(* launches with that header and target.                                   *)
C26_SearchOnWorkRead ==
    /\ pc = "search" =>
         /\ current.header = w.header
         /\ Upper64(current.boundary) = Upper64(w.boundary)
         /\ StartN(current) = StartN(w)
    /\ pc \in {"loop", "check"} =>
         /\ m_current_header = w.header
         /\ m_current_target = Upper64(w.boundary)

(* C27: every nonce the search loop reports is the nonce argument of the   *)
(* launch whose results are drained plus the result's gid, and the         *)
(* solution carries the work package under which that launch was issued.   *)
C27_NonceOfLaunch ==
    \A sol \in Submitted :
        /\ sol.nonce = (sol.launch_nonce + sol.gid) % NonceMod
        /\ sol.work = sol.launch_work

(* C28: for a work package with exSizeBits = b >= 0 the shift count        *)
(* (width of the nonce) - LOG2_MAX_MINERS - b lies between 0 and the width *)
(* less one, the start nonce handed to search keeps the pool's prefix in   *)
(* its top b bits and carries the worker's index in the next               *)
(* LOG2_MAX_MINERS bits.                                                   *)
C28_ShiftInRange ==
    (pc = "search" /\ current.exSizeBits >= 0) =>
        /\ ShiftAmount(current) \in 0 .. (NonceBits - 1)
        /\ StartN(current) \div 2 ^ (NonceBits - current.exSizeBits)
             = current.startNonce \div 2 ^ (NonceBits - current.exSizeBits)
        /\ (StartN(current) \div 2 ^ ShiftAmount(current)) % 2 ^ LOG2_MAX_MINERS = index

(* C30: after a disconnect a further connect() by the supervisor makes     *)
(* progress: the resolve handler runs, so that the session does not stay   *)
(* in the state connect() left it in.                                      *)
C30_ReconnectProgress ==
    (link = "resolving" /\ disconnected_cb > 0) ~> (link # "resolving")

(* C31: at most one asynchronous write on the session's socket is          *)
(* outstanding at any time (the writes completed by handleResponse and by  *)
(* handleHashrateResponse taken together).                                 *)
C31_OneWriteOutstanding == writes + hwrites <= 1

(* C32: every kernel launch uses a kernel handle that was compiled and     *)
(* loaded after the most recent device reset, for the ProgPoW period of    *)
(* the work being searched: while the worker is in the search loop, where  *)
(* every pass launches, m_kernel is a live handle of that period.          *)
C32_LaunchWithCurrentKernel ==
    pc \in {"search", "loop"} =>
        /\ m_kernel.live
        /\ m_kernel.period = w.height \div PROGPOW_PERIOD

-----------------------------------------------------------------------------
(* C33: in SINGLE DAG load mode every worker's initialisation eventually     *)
(* completes, for every epoch initialisation: a worker that waits for the    *)
(* shared host DAG pointer to become non-null eventually observes it and     *)
(* leaves the wait.                                                          *)
C33_SingleLoadCompletes ==
    \A i \in Workers :
        (s_dagLoadMode = "SINGLE" /\ init_pc[i] = "wait_host")
            ~> (init_pc[i] # "wait_host")
=============================================================================
